---- MODULE Spec2Model ----
(***************************************************************************)
(* Model of the mock server's state store (ApplyStateful) and of the       *)
(* request pipeline built around it (authMiddleware, createRouteHandler,   *)
(* MockHandler.handler).                                                    *)
(***************************************************************************)
EXTENDS Integers, Sequences, FiniteSets, TLC

\* ------------------------------------------------------------------ bounds
NumCallers == 2
MaxRecords == 3

Callers == 1..NumCallers
Refs == 1..MaxRecords

\* ------------------------------------------------------------------ values
\* A JSON value held in a record: a number (float64 after json.Unmarshal) or a
\* string. A record is a Go map: a function from key to value, Absent when the
\* key is not in the map. Records live on the heap and are shared by reference.
Keys == {"id", "name"}
Absent == <<"absent">>
Num(n) == <<"num", n>>
Str(s) == <<"str", s>>
IsNum(v) == v[1] = "num"
IsStr(v) == v[1] = "str"

IdVals == {Num(1), Str("1"), Num(2)}
NameVals == {Str("a"), Str("b")}
Bodies == {b \in [Keys -> IdVals \cup NameVals \cup {Absent}] :
              /\ b["id"] \in IdVals \cup {Absent}
              /\ b["name"] \in NameVals \cup {Absent}}
EmptyBody == [k \in Keys |-> Absent]
PathIds == {"1", "2"}

NilRef == 0
NoHolder == 0
Free == <<"free">>

\* fmt.Sprint of a value. A float64 prints with %v = %g in its shortest form:
\* plain decimal below 1e+06 and mantissa/exponent from there on; a missing key
\* reads as nil and prints "<nil>"; a string prints as itself.
Digit(d) ==
    CASE d = 0 -> "0" [] d = 1 -> "1" [] d = 2 -> "2" [] d = 3 -> "3" [] d = 4 -> "4"
      [] d = 5 -> "5" [] d = 6 -> "6" [] d = 7 -> "7" [] d = 8 -> "8" [] OTHER -> "9"

RECURSIVE Decimal(_)
Decimal(n) == IF n < 10 THEN Digit(n) ELSE Decimal(n \div 10) \o Digit(n % 10)

RECURSIVE NumDigits(_)
NumDigits(n) == IF n < 10 THEN 1 ELSE 1 + NumDigits(n \div 10)

RECURSIVE StripZeros(_)
StripZeros(n) == IF n > 0 /\ n % 10 = 0 THEN StripZeros(n \div 10) ELSE n

RECURSIVE PadDecimal(_, _)
PadDecimal(n, width) ==
    IF width = 0 THEN "" ELSE PadDecimal(n \div 10, width - 1) \o Digit(n % 10)

RECURSIVE Pow10(_)
Pow10(e) == IF e = 0 THEN 1 ELSE 10 * Pow10(e - 1)

ExpThreshold == 6

FormatG(n) ==
    LET exp == NumDigits(n) - 1
        m == StripZeros(n)
        lead == m \div Pow10(NumDigits(m) - 1)
        rest == m % Pow10(NumDigits(m) - 1)
        frac == IF NumDigits(m) = 1 THEN ""
                ELSE "." \o PadDecimal(rest, NumDigits(m) - 1)
    IN IF exp < ExpThreshold THEN Decimal(n)
       ELSE Digit(lead) \o frac \o "e+" \o (IF exp < 10 THEN "0" ELSE "") \o Decimal(exp)

\* Mutant: the id printed with %q, a string in quotes.
SprintQuoted(v) ==
    IF v = Absent THEN "<nil>"
    ELSE IF IsNum(v) THEN FormatG(v[2])
    ELSE "\"" \o v[2] \o "\""

Sprint(v) ==
    IF v = Absent THEN "<nil>"
    ELSE IF IsNum(v) THEN FormatG(v[2])
    ELSE v[2]

\* ------------------------------------------------------------------ config
\* config.StatefulConfig: the collection, the action and the id field of a
\* stateful route.
Collections == {"users"}
Actions == {"create", "list", "get", "update", "delete"}
StatefulConfigs ==
    [collection : Collections, action : {"create", "list", "update"}, idField : {""}]
    \cup [collection : Collections, action : {"get", "delete"}, idField : {"id"}]
NoCfg == [collection |-> "", action |-> "", idField |-> ""]

\* StateContext and EContext (the part ApplyStateful reads and writes).
EmptyState == [list |-> <<>>, item |-> NilRef, created |-> NilRef, updated |-> NilRef]
EmptyPath == [k \in Keys |-> ""]
EmptyCtx == [body |-> EmptyBody, path |-> EmptyPath, state |-> EmptyState]

\* idField := cfg.IDField; if idField == "" { idField = "id" }
IDFieldOf(c) == IF c.idField = "" THEN "id" ELSE c.idField

\* The new map a successful create puts on the heap: the next unused address.
Allocated(hp) == {r \in Refs : hp[r] # Free}
NextRef(hp) == Cardinality(Allocated(hp)) + 1

\* fmt.Sprint(item[idField]) == id
Matches(hp, r, f, id) == Sprint(hp[r][f]) = id

\* Mutant: the record replaced by the patch instead of merged with it.
MergeReplace(item, patch) == patch

\* for k, v := range ctx.Body { item[k] = v }
MergePatch(item, patch) ==
    [k \in Keys |-> IF patch[k] # Absent THEN patch[k] ELSE item[k]]

\* Index of the first record of col whose id prints as id, 0 when none does.
FirstMatch(hp, c, f, id) ==
    LET hits == {i \in 1..Len(c) : Matches(hp, c[i], f, id)}
    IN IF hits = {} THEN 0 ELSE CHOOSE i \in hits : \A j \in hits : i <= j

\* newCol: every record of col that does not match, in order.
RECURSIVE Remaining(_, _, _, _)
Remaining(hp, c, f, id) ==
    IF c = <<>> THEN <<>>
    ELSE IF Matches(hp, Head(c), f, id) THEN Remaining(hp, Tail(c), f, id)
    ELSE <<Head(c)>> \o Remaining(hp, Tail(c), f, id)

\* Mutant: a create that appends before it looks for a conflict.
ApplyCreateStoreFirst(c, hp, f, x) ==
    LET item == x.body
        new == NextRef(hp)
    IN IF item[f] = Absent
       THEN [col |-> c, written |-> FALSE, stored |-> c, heap |-> hp, state |-> x.state,
             err |-> "BadInput"]
       ELSE [col |-> Append(c, new), written |-> TRUE, stored |-> Append(c, new),
             heap |-> [hp EXCEPT ![new] = item],
             state |-> IF \E i \in 1..Len(c) : Sprint(hp[c[i]][f]) = Sprint(item[f])
                       THEN x.state
                       ELSE [x.state EXCEPT !.created = new, !.list = Append(c, new)],
             err |-> IF \E i \in 1..Len(c) : Sprint(hp[c[i]][f]) = Sprint(item[f])
                     THEN "Conflict" ELSE "nil"]

\* case "create"
ApplyCreate(c, hp, f, x) ==
    LET item == x.body
        new == NextRef(hp)
    IN IF item[f] = Absent
       THEN [col |-> c, written |-> FALSE, stored |-> c, heap |-> hp, state |-> x.state, err |-> "BadInput"]
       ELSE IF \E i \in 1..Len(c) : Sprint(hp[c[i]][f]) = Sprint(item[f])
       THEN [col |-> c, written |-> FALSE, stored |-> c, heap |-> hp, state |-> x.state, err |-> "Conflict"]
       ELSE [col |-> Append(c, new), written |-> TRUE, stored |-> Append(c, new),
             heap |-> [hp EXCEPT ![new] = item],
             state |-> [x.state EXCEPT !.created = new, !.list = Append(c, new)],
             err |-> "nil"]

\* case "list"
ApplyList(c, hp, f, x) ==
    [col |-> c, written |-> FALSE, stored |-> c, heap |-> hp,
     state |-> [x.state EXCEPT !.list = c], err |-> "nil"]

\* case "get"
ApplyGet(c, hp, f, x) ==
    LET i == FirstMatch(hp, c, f, x.path[f])
    IN IF i = 0
       THEN [col |-> c, written |-> FALSE, stored |-> c, heap |-> hp, state |-> x.state, err |-> "NotFound"]
       ELSE [col |-> c, written |-> FALSE, stored |-> c, heap |-> hp,
             state |-> [x.state EXCEPT !.item = c[i]], err |-> "nil"]

\* case "update"
ApplyUpdate(c, hp, f, x) ==
    LET i == FirstMatch(hp, c, f, x.path[f])
    IN IF i = 0
       THEN [col |-> c, written |-> FALSE, stored |-> c, heap |-> hp, state |-> x.state, err |-> "NotFound"]
       ELSE [col |-> c, written |-> TRUE, stored |-> c,
             heap |-> [hp EXCEPT ![c[i]] = MergePatch(hp[c[i]], x.body)],
             state |-> [x.state EXCEPT !.updated = c[i]], err |-> "nil"]

\* case "delete"
ApplyDelete(c, hp, f, x) ==
    LET newCol == Remaining(hp, c, f, x.path[f])
    IN IF Len(newCol) = Len(c)
       THEN [col |-> c, written |-> FALSE, stored |-> c, heap |-> hp, state |-> x.state, err |-> "NotFound"]
       ELSE [col |-> c, written |-> TRUE, stored |-> newCol, heap |-> hp,
             state |-> [x.state EXCEPT !.list = newCol], err |-> "nil"]

\* ApplyStateful between Lock and Unlock: c is the collection as read from
\* store.collections, hp the records. The result: col, the local col after the
\* switch; written and stored, whether and what store.collections[cfg.Collection]
\* is assigned; the records; ctx.State; the error returned.
ApplyStateful(c, hp, sc, x) ==
    LET f == IDFieldOf(sc)
    IN CASE sc.action = "create" -> ApplyCreate(c, hp, f, x)
         [] sc.action = "list" -> ApplyList(c, hp, f, x)
         [] sc.action = "get" -> ApplyGet(c, hp, f, x)
         [] sc.action = "update" -> ApplyUpdate(c, hp, f, x)
         [] sc.action = "delete" -> ApplyDelete(c, hp, f, x)
         [] OTHER -> [col |-> c, written |-> FALSE, stored |-> c, heap |-> hp, state |-> x.state,
                      err |-> "unknown"]

\* ------------------------------------------------------------------ strings
\* Strings the code folds, cuts or trims are sequences of characters.
UpperChars == <<"A", "B", "C", "D", "E", "F", "G", "H", "I", "J", "K", "L", "M",
                "N", "O", "P", "Q", "R", "S", "T", "U", "V", "W", "X", "Y", "Z">>
LowerChars == <<"a", "b", "c", "d", "e", "f", "g", "h", "i", "j", "k", "l", "m",
                "n", "o", "p", "q", "r", "s", "t", "u", "v", "w", "x", "y", "z">>
LowerChar(ch) ==
    IF \E i \in 1..Len(UpperChars) : UpperChars[i] = ch
    THEN LowerChars[CHOOSE i \in 1..Len(UpperChars) : UpperChars[i] = ch]
    ELSE ch

\* strings.ToLower
ToLower(s) == [i \in 1..Len(s) |-> LowerChar(s[i])]

\* strings.EqualFold, on ASCII
EqualFold(s, t) == Len(s) = Len(t) /\ \A i \in 1..Len(s) : LowerChar(s[i]) = LowerChar(t[i])

\* strings.TrimSpace
RECURSIVE TrimLeft(_)
TrimLeft(s) == IF s # <<>> /\ Head(s) = " " THEN TrimLeft(Tail(s)) ELSE s
RECURSIVE TrimRight(_)
TrimRight(s) ==
    IF s # <<>> /\ s[Len(s)] = " " THEN TrimRight(SubSeq(s, 1, Len(s) - 1)) ELSE s
TrimSpace(s) == TrimRight(TrimLeft(s))

\* ------------------------------------------------------------------ auth
\* config.AuthConfig behind a pointer: set is FALSE for nil.
NoAuth == [set |-> FALSE, enabled |-> FALSE, type |-> <<>>, in |-> <<>>, name |-> <<>>,
           keys |-> {}]
Header == <<"h", "e", "a", "d", "e", "r">>
Query == <<"q", "u", "e", "r", "y">>
ApiKey == <<"a", "p", "i", "K", "e", "y">>
Bearer == <<"b", "e", "a", "r", "e", "r">>
Basic == <<"b", "a", "s", "i", "c">>
TypeApiKey == <<"a", "p", "i", "k", "e", "y">>
XSecret == <<"X", "-", "S", "e", "c", "r", "e", "t">>
Authorization == <<"A", "u", "t", "h", "o", "r", "i", "z", "a", "t", "i", "o", "n">>
Token == <<"t", "o", "k", "e", "n">>
BearerPrefix == <<"B", "e", "a", "r", "e", "r", " ">>
PrefixLen == 7

SecretKey == <<"k">>
BearerKey == <<"t", "1">>
WrongKey == <<"x">>

\* cfg.Server.Auth of TestIntegration_Auth.
GlobalAuth == [set |-> TRUE, enabled |-> TRUE, type |-> ApiKey, in |-> Header,
               name |-> XSecret, keys |-> {SecretKey}]

\* Request headers by lower-case name and query parameters by name, the empty
\* string when not sent.
HeaderNames == {ToLower(XSecret), ToLower(Authorization)}
QueryNames == {Token}
NoHeaders == [n \in HeaderNames |-> <<>>]
NoQuery == [n \in QueryNames |-> <<>>]

\* c.Get(name): header names compare without case.
GetHeader(r, name) == IF ToLower(name) \in HeaderNames THEN r.headers[ToLower(name)] ELSE <<>>

\* c.Query(name)
GetQuery(r, name) == IF name \in QueryNames THEN r.query[name] ELSE <<>>

\* Mutant: the global config used whatever the route says.
EffectiveAuthGlobalOnly(globalAuth, routeAuth) == globalAuth

\* authConf := globalAuth; if routeAuth != nil { authConf = routeAuth }
EffectiveAuth(globalAuth, routeAuth) == IF routeAuth.set THEN routeAuth ELSE globalAuth

\* The credential read from the configured place, for bearer from the
\* Authorization header when that place gave none.
Credential(authConf, r) ==
    LET authIn == ToLower(authConf.in)
        found == CASE authIn = Header -> GetHeader(r, authConf.name)
                   [] authIn = Query -> GetQuery(r, authConf.name)
                   [] OTHER -> <<>>
    IN IF found = <<>> /\ ToLower(authConf.type) = Bearer
       THEN GetHeader(r, Authorization)
       ELSE found

\* token := credential without a leading "Bearer ", trimmed
BearerToken(credential) ==
    TrimSpace(IF Len(credential) > PrefixLen
                  /\ EqualFold(SubSeq(credential, 1, PrefixLen), BearerPrefix)
              THEN SubSeq(credential, PrefixLen + 1, Len(credential))
              ELSE credential)

\* _contains(slice, val)
Contains(keys, val) == val \in keys

StatusOK == 200
StatusBadRequest == 400
StatusUnauthorized == 401
StatusNotFound == 404
StatusConflict == 409
StatusInternalServerError == 500

Pass == [pass |-> TRUE, status |-> 0, code |-> ""]
Reject(status, code) == [pass |-> FALSE, status |-> status, code |-> code]

\* authMiddleware: whether c.Next() is called, and the error response when not.
AuthMiddleware(globalAuth, routeAuth, r) ==
    LET authConf == EffectiveAuth(globalAuth, routeAuth)
        authType == ToLower(authConf.type)
        credential == Credential(authConf, r)
    IN IF ~authConf.set \/ ~authConf.enabled THEN Pass
       ELSE IF authType = <<>> THEN Reject(StatusInternalServerError, "AUTH_MISCONFIGURED")
       ELSE IF credential = <<>> THEN Reject(StatusUnauthorized, "MISSING_CREDENTIAL")
       ELSE IF authType = TypeApiKey
            THEN IF Contains(authConf.keys, credential) THEN Pass
                 ELSE Reject(StatusUnauthorized, "INVALID_API_KEY")
       ELSE IF authType = Bearer
            THEN IF Contains(authConf.keys, BearerToken(credential)) THEN Pass
                 ELSE Reject(StatusUnauthorized, "INVALID_BEARER_TOKEN")
       ELSE Reject(StatusInternalServerError, "UNSUPPORTED_AUTH_TYPE")

\* ------------------------------------------------------------------ request body
\* The bytes of a request body: none, bytes that are not JSON, or a JSON object.
NoBody == <<"none">>
BadBody == <<"bad">>
JsonBody(b) == <<"json", b>>

\* json.Unmarshal(c.Body(), &ctx.Body) when len(c.Body()) > 0, its error dropped.
UnmarshalBody(raw) == IF raw[1] = "json" THEN raw[2] ELSE EmptyBody

\* shouldParseBody
ShouldParseBody(method, raw) == method \in {"POST", "PUT", "PATCH"} /\ raw # NoBody

\* ------------------------------------------------------------------ schema
\* config.JSONSchema of type object: the required keys and the type of each
\* property, "" for a key that is not a property.
NoSchema == [set |-> FALSE, required |-> {}, types |-> [k \in Keys |-> ""]]
NumericTexts == {Decimal(n) : n \in 0..9}
NumericValue(s) == CHOOSE n \in 0..9 : Decimal(n) = s

\* validateType; the numbers of the model are whole.
ValidateType(expectedType, v) ==
    IF expectedType = "" THEN "ok"
    ELSE IF IsStr(v)
         THEN IF expectedType \in {"integer", "number"} /\ v[2] \in NumericTexts THEN "ok"
              ELSE IF expectedType = "string" THEN "ok" ELSE "error"
    ELSE "ok"

\* ValidateJSONSchema of one property: the type, then the constraints of the
\* type, where data.(string) panics on a value that is not a string.
ValidateProperty(expectedType, v) ==
    IF ValidateType(expectedType, v) = "error" THEN "error"
    ELSE IF expectedType = "string" /\ ~IsStr(v) THEN "panic"
    ELSE "ok"

\* validateObject: the required keys, then the properties in the map's
\* iteration order, which stops at the first that fails: the outcomes it can have.
ValidateObject(schema, b) ==
    LET present == {k \in Keys : b[k] # Absent /\ schema.types[k] # ""}
        failing == {k \in present : ValidateProperty(schema.types[k], b[k]) # "ok"}
    IN IF \E k \in schema.required : b[k] = Absent THEN {"error"}
       ELSE IF failing = {} THEN {"ok"}
       ELSE {ValidateProperty(schema.types[k], b[k]) : k \in failing}

\* ------------------------------------------------------------------ templates
StateShortcuts == {"{{state.list}}", "{{state.item}}", "{{state.created}}", "{{state.updated}}"}
NullValue == <<"null">>
Text(s) == <<"text", s>>

\* ProcessTemplateJSON of a string template: a state shortcut gives the value
\* ctx.State holds, a reference into the store; any other text of the model has
\* no placeholder the replacement resolves and stays as it is.
ProcessTemplateJSON(template, st, hasState) ==
    IF template = "" THEN NullValue
    ELSE IF hasState /\ template \in StateShortcuts
    THEN CASE template = "{{state.list}}" -> <<"refs", st.list>>
           [] template = "{{state.item}}" -> <<"ref", st.item>>
           [] template = "{{state.created}}" -> <<"ref", st.created>>
           [] OTHER -> <<"ref", st.updated>>
    ELSE Text(template)

\* c.JSON(value): the records are read when the response is written.
ToJSON(v, hp) ==
    CASE v[1] = "refs" -> <<"list", [i \in 1..Len(v[2]) |-> hp[v[2][i]]]>>
      [] v[1] = "ref" -> IF v[2] = NilRef THEN NullValue ELSE <<"obj", hp[v[2]]>>
      [] OTHER -> v

\* ------------------------------------------------------------------ responses
\* Response headers by name, "" for a header that is not set.
ResponseHeaderNames == {"X-Source", "X-Extra"}
NoneSet == [h \in ResponseHeaderNames |-> ""]
SetHeader(name, v) == [NoneSet EXCEPT ![name] = v]

\* for k, v := range headers { c.Set(k, v) }
SetAll(base, headers) ==
    [h \in ResponseHeaderNames |-> IF headers[h] # "" THEN headers[h] ELSE base[h]]

\* mergeHeaders: Default Config < Route Config < Custom Overrides
MergeHeaders(defaults, routeHeaders, customHeaders) ==
    SetAll(SetAll(defaults, routeHeaders), customHeaders)

\* A response: the HTTP status, the error code its body names ("" when it is
\* no error), the headers set and the JSON body.
NoResp == [status |-> 0, code |-> "", headers |-> NoneSet, body |-> <<"unwritten">>]

\* ApiError: the error envelope.
Envelope(status, code) ==
    <<"envelope", [success |-> FALSE, status |-> status, errorCode |-> code]>>

\* responseError
ResponseError(status, code) ==
    [status |-> status, code |-> code, headers |-> NoneSet, body |-> Envelope(status, code)]

\* fiber.Map{"error": fiber.Map{"code": ..., "message": ..., ...}}
ErrorMap(code) == <<"map", [error |-> [code |-> code]]>>

\* handleStateError: a map of its own for NotFound and Conflict, the envelope
\* for every other error.
HandleStateError(e) ==
    CASE e = "NotFound" ->
            [status |-> StatusNotFound, code |-> "STATE_NOT_FOUND", headers |-> NoneSet,
             body |-> ErrorMap("STATE_NOT_FOUND")]
      [] e = "Conflict" ->
            [status |-> StatusConflict, code |-> "STATE_CONFLICT", headers |-> NoneSet,
             body |-> ErrorMap("STATE_CONFLICT")]
      [] OTHER -> ResponseError(StatusInternalServerError, "STATE_ERROR")

\* ------------------------------------------------------------------ cases
\* A condition is an OR of AND-groups of atoms request.<scope>.<key> == <literal>.
\* A header or query value is a string of characters; those of the model are
\* no numbers.
Chars(s) == <<"chars", s>>
IsChars(v) == v[1] = "chars"

\* evalCompareValues with "==": numbers and numeric strings compare as numbers.
IsNumeric(v) == IsNum(v) \/ (IsStr(v) /\ v[2] \in NumericTexts)
AsNumber(v) == IF IsNum(v) THEN v[2] ELSE NumericValue(v[2])
CompareValues(a, b) ==
    IF IsNumeric(a) /\ IsNumeric(b) THEN (IF AsNumber(a) = AsNumber(b) THEN "true" ELSE "false")
    ELSE IF IsNum(a) \/ IsNum(b) \/ IsChars(a) # IsChars(b) THEN "error"
    ELSE IF a[2] = b[2] THEN "true" ELSE "false"

\* buildHeaders, buildQuery: the maps of the headers and query parameters sent,
\* by lower-case name.
BuildHeaders(rq) == rq.headers
BuildQuery(rq) == [n \in {ToLower(q) : q \in DOMAIN rq.query} |->
                     rq.query[CHOOSE q \in DOMAIN rq.query : ToLower(q) = n]]

\* The EContext the handler evaluates cases and templates against.
EContext(c, rq) ==
    [body |-> c.body, path |-> c.path, state |-> c.state,
     headers |-> BuildHeaders(rq), query |-> BuildQuery(rq)]

\* for k, v := range m { if strings.EqualFold(k, key) ... }: a name that was not
\* sent is not in the map.
FoldLookup(m, key) ==
    LET hit == {k \in DOMAIN m : EqualFold(k, key) /\ m[k] # <<>>}
    IN IF hit = {} THEN Absent ELSE Chars(m[CHOOSE k \in hit : TRUE])

\* evalResolveValue: the value of request.<scope>.<key>, Absent when the scope
\* has no such key; header and query keys compare without case.
ResolveValue(scope, key, x) ==
    CASE scope = "body" -> x.body[key]
      [] scope = "path" -> IF x.path[key] = "" THEN Absent ELSE Str(x.path[key])
      [] scope = "headers" -> FoldLookup(x.headers, key)
      [] scope = "query" -> FoldLookup(x.query, key)
      [] OTHER -> Absent

\* Mutant: a key that is not there makes the comparison false.
EvalSingleConditionLenient(atom, x) ==
    LET v == ResolveValue(atom.scope, atom.key, x)
    IN IF v = Absent THEN "false" ELSE CompareValues(v, atom.lit)

\* evalSingleCondition: the key must be there.
EvalSingleCondition(atom, x) ==
    LET v == ResolveValue(atom.scope, atom.key, x)
    IN IF v = Absent THEN "error" ELSE CompareValues(v, atom.lit)

\* Mutant: every atom of the group is evaluated before the group is decided.
EvalAndEager(atoms, x) ==
    IF \E k \in 1..Len(atoms) : EvalSingleCondition(atoms[k], x) = "error" THEN "error"
    ELSE IF \E k \in 1..Len(atoms) : EvalSingleCondition(atoms[k], x) = "false" THEN "false"
    ELSE "true"

RECURSIVE EvalAnd(_, _)
EvalAnd(atoms, x) ==
    IF atoms = <<>> THEN "true"
    ELSE LET r == EvalSingleCondition(Head(atoms), x)
         IN IF r = "true" THEN EvalAnd(Tail(atoms), x) ELSE r

\* EvaluateCondition
RECURSIVE EvaluateCondition(_, _)
EvaluateCondition(groups, x) ==
    IF groups = <<>> THEN "false"
    ELSE LET r == EvalAnd(Head(groups), x)
         IN IF r = "false" THEN EvaluateCondition(Tail(groups), x) ELSE r

\* Mutant: the loop keeps going and the last matching case answers.
RECURSIVE CaseLoopLast(_, _, _)
CaseLoopLast(cases, i, x) ==
    IF i > Len(cases) THEN 0
    ELSE LET r == EvaluateCondition(cases[i].when, x)
             later == CaseLoopLast(cases, i + 1, x)
         IN IF r = "error" THEN -1
            ELSE IF later # 0 THEN later
            ELSE IF r = "true" THEN i ELSE 0

\* The case loop: the index of the first case that matches, 0 when none does,
\* -1 when a condition fails to evaluate before one matches.
RECURSIVE CaseLoop(_, _, _)
CaseLoop(cases, i, x) ==
    IF i > Len(cases) THEN 0
    ELSE LET r == EvaluateCondition(cases[i].when, x)
         IN IF r = "error" THEN -1 ELSE IF r = "true" THEN i ELSE CaseLoop(cases, i + 1, x)

\* ------------------------------------------------------------------ parameters
\* config.ParamDef of a declared path, query or header parameter; an empty enum
\* allows every value.
ParamDef(key, type, required, enum) ==
    [key |-> key, type |-> type, required |-> required, enum |-> enum]

\* strconv.Atoi and strconv.ParseBool succeed
DigitChars == {"0", "1", "2", "3", "4", "5", "6", "7", "8", "9"}
IsInteger(raw) ==
    LET digits == IF raw # <<>> /\ Head(raw) \in {"+", "-"} THEN Tail(raw) ELSE raw
    IN digits # <<>> /\ \A i \in 1..Len(digits) : digits[i] \in DigitChars
BoolTexts == {<<"1">>, <<"t">>, <<"T">>, <<"T", "R", "U", "E">>, <<"t", "r", "u", "e">>,
              <<"T", "r", "u", "e">>, <<"0">>, <<"f">>, <<"F">>, <<"F", "A", "L", "S", "E">>,
              <<"f", "a", "l", "s", "e">>, <<"F", "a", "l", "s", "e">>}

\* validateType of validation.go: TRUE when the raw text has the type.
ParamTypeOk(raw, typ) ==
    CASE typ = "string" -> TRUE
      [] typ \in {"integer", "int"} -> IsInteger(raw)
      [] typ \in {"boolean", "bool"} -> raw \in BoolTexts
      [] OTHER -> FALSE

\* validateEnum
ParamEnumOk(raw, enum) == enum = {} \/ raw \in enum

\* check of validateRequestParams: one parameter against its definition.
ParamCheck(raw, def, kind) ==
    IF def.required /\ raw = <<>> THEN Reject(StatusBadRequest, "MISSING_" \o kind)
    ELSE IF raw # <<>> /\ ~ParamTypeOk(raw, def.type)
    THEN Reject(StatusBadRequest, "INVALID_" \o kind)
    ELSE IF raw # <<>> /\ ~ParamEnumOk(raw, def.enum)
    THEN Reject(StatusBadRequest, "INVALID_ENUM_VALUE")
    ELSE Pass

\* c.Params(key): the ids of the model are one character long.
GetParam(r, key) == IF key = "id" /\ r.id # "" THEN <<r.id>> ELSE <<>>

\* validateRequestParams: the path parameters, then the query, then the headers;
\* the first check that fails answers, in the iteration order of the map it is in.
ValidateRequestParams(route, r) ==
    LET pathFails == {ParamCheck(GetParam(r, d.key), d, "PATH_PARAM") : d \in route.pathParams}
                        \ {Pass}
        queryFails == {ParamCheck(GetQuery(r, d.key), d, "QUERY_PARAM") : d \in route.query}
                        \ {Pass}
        headerFails == {ParamCheck(GetHeader(r, d.key), d, "HEADER") : d \in route.requestHeaders}
                        \ {Pass}
    IN IF pathFails # {} THEN pathFails
       ELSE IF queryFails # {} THEN queryFails
       ELSE IF headerFails # {} THEN headerFails
       ELSE {Pass}

\* ------------------------------------------------------------------ routes
\* config.RouteConfig: pointers carry a set flag, FALSE for nil.
NoStateful == [set |-> FALSE, cfg |-> NoCfg]
Stateful(a) == [set |-> TRUE, cfg |-> CHOOSE sc \in StatefulConfigs : sc.action = a]
NoMock == [set |-> FALSE, status |-> 0, body |-> "", headers |-> NoneSet]
Mock(status, body) == [set |-> TRUE, status |-> status, body |-> body, headers |-> NoneSet]
UserSchema(required) ==
    [set |-> TRUE, required |-> required,
     types |-> [k \in Keys |-> IF k = "id" THEN "integer" ELSE "string"]]
RouteAuth(type, in, name, keys) ==
    [set |-> TRUE, enabled |-> TRUE, type |-> type, in |-> in, name |-> name, keys |-> keys]
AuthOff == [set |-> TRUE, enabled |-> FALSE, type |-> <<>>, in |-> <<>>, name |-> <<>>,
            keys |-> {}]
BaseRoute == [method |-> "GET", hasId |-> FALSE, status |-> 0, headers |-> NoneSet,
              auth |-> NoAuth,
              pathParams |-> {}, query |-> {}, requestHeaders |-> {},
              stateful |-> NoStateful, schema |-> NoSchema, cases |-> <<>>, mock |-> NoMock,
              fetch |-> FALSE, default |-> NoMock]
BodyAtom(key, lit) == [scope |-> "body", key |-> key, lit |-> lit]
RoleCase == [when |-> << <<BodyAtom("name", Str("b"))>> >>,
             then |-> [status |-> StatusOK, body |-> "B", headers |-> NoneSet]]

\* The routes served: the users collection of TestIntegration_StatefulFlow with
\* its other three actions, the secret of TestIntegration_Auth under the global
\* auth, two routes whose own auth has a type the gate does not know or none,
\* and a route answered by a case or its default response.
RouteNames == {"createUser", "getUser", "updateUser", "deleteUser", "listUsers",
               "secret", "legacy", "broken", "search"}
RouteTable ==
    [n \in RouteNames |->
        CASE n = "createUser" ->
                [BaseRoute EXCEPT !.method = "POST", !.stateful = Stateful("create"),
                                  !.schema = UserSchema({"name"}),
                                  !.mock = Mock(0, "{{state.created}}")]
          [] n = "getUser" ->
                [BaseRoute EXCEPT !.hasId = TRUE, !.stateful = Stateful("get"),
                                  !.auth = AuthOff, !.mock = Mock(StatusOK, "{{state.item}}")]
          [] n = "updateUser" ->
                [BaseRoute EXCEPT !.method = "PUT", !.hasId = TRUE,
                                  !.stateful = Stateful("update"), !.schema = UserSchema({}),
                                  !.auth = RouteAuth(Bearer, Header, Authorization, {BearerKey}),
                                  !.mock = Mock(StatusOK, "{{state.updated}}")]
          [] n = "deleteUser" ->
                [BaseRoute EXCEPT !.method = "DELETE", !.hasId = TRUE,
                                  !.stateful = Stateful("delete"),
                                  !.auth = RouteAuth(ApiKey, Query, Token, {SecretKey}),
                                  !.mock = Mock(StatusOK, "{{state.list}}")]
          [] n = "listUsers" ->
                [BaseRoute EXCEPT !.stateful = Stateful("list"),
                                  !.mock = Mock(StatusOK, "{{state.list}}")]
          [] n = "secret" -> [BaseRoute EXCEPT !.mock = Mock(StatusOK, "Success")]
          [] n = "legacy" ->
                [BaseRoute EXCEPT !.auth = RouteAuth(Basic, Header, Authorization, {SecretKey}),
                                  !.mock = Mock(StatusOK, "Success")]
          [] n = "broken" ->
                [BaseRoute EXCEPT !.auth = RouteAuth(<<>>, Header, XSecret, {SecretKey}),
                                  !.mock = Mock(StatusOK, "Success")]
          [] OTHER ->
                [BaseRoute EXCEPT !.method = "POST", !.auth = AuthOff, !.cases = <<RoleCase>>,
                                  !.default = Mock(StatusOK, "fallback")]]

\* Routes without state, for the order in which a response is chosen: two
\* cases, then every combination of mock, fetch and default response, and a
\* route with a mock alone.
\*   CaseA:  request.body.name == 'b'
\*   CaseB:  request.body.id == 1
\*           || request.headers.X-Secret == 'k' && request.query.token == 'k'
\*   CaseC:  request.path.id == '1'
\* CaseB declares no body; CaseC is the third case of one route, whose path has
\* no parameter.
StatusCreated == 201
StatusAccepted == 202
StatusNonAuthoritative == 203
Atom(scope, key, lit) == [scope |-> scope, key |-> key, lit |-> lit]
CaseA == [when |-> << <<BodyAtom("name", Str("b"))>> >>,
          then |-> [status |-> StatusCreated, body |-> "B",
                    headers |-> SetHeader("X-Source", "case")]]
CaseB == [when |-> << <<BodyAtom("id", Num(1))>>,
                      <<Atom("headers", XSecret, Chars(SecretKey)),
                        Atom("query", Token, Chars(SecretKey))>> >>,
          then |-> [status |-> StatusAccepted, body |-> "", headers |-> NoneSet]]
CaseC == [when |-> << <<Atom("path", "id", Str("1"))>> >>,
          then |-> [status |-> StatusOK, body |-> "C", headers |-> NoneSet]]
LogicMock == [Mock(0, "Success") EXCEPT !.headers = SetHeader("X-Source", "mock")]
LogicDefault == [Mock(StatusNonAuthoritative, "fallback")
                    EXCEPT !.headers = SetHeader("X-Source", "default")]
LogicBase == [BaseRoute EXCEPT !.method = "POST", !.auth = AuthOff,
                               !.headers = SetHeader("X-Source", "route"),
                               !.requestHeaders = {ParamDef(XSecret, "string", TRUE,
                                                            {SecretKey})},
                               !.query = {ParamDef(Token, "integer", FALSE, {})},
                               !.schema = UserSchema({"id", "name"})]
CaseRouteNames == {"m", "f", "d", "mf", "md", "fd", "mfd", "none"}
LogicNames == CaseRouteNames \cup {"plain", "path"}
LogicTable ==
    [n \in LogicNames |->
        IF n = "plain" THEN [LogicBase EXCEPT !.mock = LogicMock]
        ELSE IF n = "path"
        THEN [LogicBase EXCEPT !.cases = <<CaseA, CaseB, CaseC>>, !.mock = LogicMock]
        ELSE [LogicBase EXCEPT
                !.cases = <<CaseA, CaseB>>,
                !.mock = IF n \in {"m", "mf", "mfd"} THEN LogicMock
                         ELSE IF n = "md" THEN [LogicMock EXCEPT !.body = "Other"]
                         ELSE NoMock,
                !.fetch = n \in {"f", "mf", "fd", "mfd"},
                !.default = IF n \in {"d", "md", "fd", "mfd"} THEN LogicDefault ELSE NoMock]]
RouteConfigOf(n) == IF n \in LogicNames THEN LogicTable[n] ELSE RouteTable[n]

\* newMockHandler: status := 200, the route's when set, the mock's when set.
MockStatus(route) ==
    IF route.mock.status # 0 THEN route.mock.status
    ELSE IF route.status # 0 THEN route.status
    ELSE StatusOK

\* cfg.Server.DefaultHeaders
DefaultHeaders == SetHeader("X-Extra", "server")

Written(status, v, hp) ==
    [status |-> status, code |-> "", headers |-> NoneSet, body |-> ToJSON(v, hp)]
WithHeaders(rs, headers) == [rs EXCEPT !.headers = SetAll(rs.headers, headers)]

\* MockHandler.handler: the responses it can write. The body is parsed and
\* checked against the route's schema here, then the mock body is expanded.
MockHandler(route, rq, x, hp) ==
    LET headers == MergeHeaders(DefaultHeaders, route.headers, route.mock.headers)
        ok == Written(MockStatus(route),
                      ProcessTemplateJSON(route.mock.body, x.state, route.stateful.set), hp)
        written ==
            IF ~ShouldParseBody(route.method, rq.body) THEN {ok}
            ELSE IF rq.body = BadBody THEN {ResponseError(StatusBadRequest, "INVALID_BODY")}
            ELSE IF ~route.schema.set THEN {ok}
            ELSE {CASE o = "ok" -> ok
                    [] o = "error" ->
                         ResponseError(StatusBadRequest, "SCHEMA_VALIDATION_FAILED")
                    [] OTHER -> ResponseError(StatusInternalServerError, "PANIC_RECOVERED")
                  : o \in ValidateObject(route.schema, rq.body[2])}
    IN {WithHeaders(rs, headers) : rs \in written}

\* The fetch handler. What it writes once the upstream has answered with a
\* status and its body was read: 304 with an empty map; a 4xx inside the error
\* envelope; for every other status the upstream's headers and body bytes, with
\* c.Send and no c.Status, so with the status the response already has.
StatusBadGateway == 502
StatusGatewayTimeout == 504
StatusNotModified == 304
UpstreamStatuses == {200, 201, 304, 404, 500}
UpstreamHeaders == SetHeader("X-Source", "upstream")
FetchRelay(status) ==
    IF status = StatusNotModified
    THEN [status |-> StatusNotModified, code |-> "", headers |-> NoneSet,
          body |-> <<"emptyMap">>]
    ELSE IF status >= 400 /\ status < 500
    THEN ResponseError(status, "FETCH_UPSTREAM_CLIENT_ERROR")
    ELSE [status |-> StatusOK, code |-> "", headers |-> UpstreamHeaders,
          body |-> <<"upstream">>]
FetchTimeoutError == ResponseError(StatusGatewayTimeout, "FETCH_TIMEOUT_ERROR")
FetchUpstreamError == ResponseError(StatusBadGateway, "FETCH_UPSTREAM_ERROR")
FetchBodyReadError == ResponseError(StatusInternalServerError, "FETCH_BODY_READ_ERROR")

\* Every response the fetch handler can write.
FetchHandler ==
    {FetchRelay(st) : st \in UpstreamStatuses}
    \cup {FetchTimeoutError, FetchUpstreamError, FetchBodyReadError}

\* timeout := 10 * time.Second; if p.timeoutMs > 0 { timeout = p.timeoutMs }
DefaultTimeoutMs == 10000
FetchTimeout(timeoutMs) == IF timeoutMs > 0 THEN timeoutMs ELSE DefaultTimeoutMs

\* The handlers and upstreams of the model, times in milliseconds: an upstream
\* answers its header after headerMs and the end of its body bodyMs later, or
\* refuses the connection.
TimeoutChoices == {0, 5000, 15000}
DelayChoices == {0, 5000, 10000, 15000}
LatencyChoices == {0, 5000, 10000}
Upstreams ==
    [refused : {FALSE}, status : UpstreamStatuses, headerMs : LatencyChoices,
     bodyMs : LatencyChoices]
    \cup [refused : {TRUE}, status : {0}, headerMs : {0}, bodyMs : {0}]
NoUpstream == [refused |-> TRUE, status |-> 0, headerMs |-> 0, bodyMs |-> 0]

\* One call of FetchHandler.handler: where it is, the time since it started,
\* the deadline of timeCtx, whether the upstream request left, whether
\* the upstream's header and body arrived, and what was written.
NoCall == [pc |-> "idle", timeoutMs |-> 0, delayMs |-> 0, up |-> NoUpstream, now |-> 0,
           deadline |-> 0, sent |-> FALSE, header |-> FALSE, body |-> FALSE, resp |-> NoResp]

\* select between two timers: the earlier one, either when they fall together.
FirstOf(a, b) == IF a < b THEN {"a"} ELSE IF b < a THEN {"b"} ELSE {"a", "b"}

\* watchConfigFile: the debounce timer. Times are in milliseconds.
DebounceDelay == 500
NoTimer == -1
TickMs == 250
MaxTime == 2500
MaxLog == 6
EventOps == {"write", "chmod"}
\* reloadTimer.Stop(); reloadTimer = time.AfterFunc(debounceDelay, ...)
RearmKeep(timer, now) == IF timer # NoTimer THEN timer ELSE now + DebounceDelay
Rearm(timer, now) == now + DebounceDelay
NoWatch == [now |-> 0, timer |-> NoTimer, log |-> <<>>, running |-> TRUE]

\* ------------------------------------------------------------------ configuration files
\* A route as the config file declares it: the fields that validation,
\* handler construction and registration read. mock is "none" (no mock),
\* "body", "file" (a .json file that exists), "gone" (a .json file that does
\* not exist) or "empty" (a mock with neither body nor file).
AllowedMethods == {"GET", "POST", "PUT", "PATCH", "DELETE", "OPTIONS"}
Decl(name, method, path, mock, delayMs, mockDelayMs) ==
    [name |-> name, method |-> method, path |-> path, mock |-> mock, stateful |-> FALSE,
     delayMs |-> delayMs, mockDelayMs |-> mockDelayMs]
RouteA == Decl("a", "GET", "/a", "body", 0, 0)
RouteB == Decl("b", "POST", "/b", "file", 0, 0)
RouteA2 == Decl("a2", "GET", "/a", "body", 0, 0)
RouteOptions == Decl("o", "OPTIONS", "/a", "body", 0, 0)
RouteEmpty == Decl("e", "GET", "/e", "empty", 0, 0)
RouteGone == Decl("g", "GET", "/g", "gone", 0, 0)
RouteTrace == Decl("t", "TRACE", "/t", "body", 0, 0)
RouteSlow == Decl("d", "GET", "/d", "body", 0, 15000)
RouteNegative == Decl("n", "GET", "/n", "body", 0, -1)
RouteKeeper == [Decl("k", "POST", "/k", "empty", 0, 0) EXCEPT !.stateful = TRUE]
RouteBoth == Decl("r", "GET", "/r", "body", 3000, 7000)

Config(routes, delayMs) == [routes |-> routes, delayMs |-> delayMs]
ConfigChoices ==
    { Config(<<RouteA, RouteB>>, 0),
      Config(<<RouteB, RouteBoth>>, 12000),
      Config(<<RouteA, RouteOptions>>, 0),
      Config(<<RouteA, RouteEmpty, RouteB>>, 0),
      Config(<<RouteA, RouteGone>>, 0),
      Config(<<RouteTrace>>, 0),
      Config(<<RouteSlow>>, 0),
      Config(<<RouteNegative>>, 0),
      Config(<<RouteKeeper>>, 0),
      Config(<<RouteA, RouteA2>>, 0) }
FirstConfig == Config(<<RouteA, RouteB>>, 0)

\* The file on disk: os.ReadFile may fail, the parser may fail, or the text
\* is a configuration.
FileOf(c) == [readable |-> TRUE, parses |-> TRUE, cfg |-> c]
FileChoices ==
    {FileOf(c) : c \in ConfigChoices}
        \cup {[readable |-> FALSE, parses |-> FALSE, cfg |-> FirstConfig],
              [readable |-> TRUE, parses |-> FALSE, cfg |-> FirstConfig]}

\* validateMock: the file must exist; a negative delay is refused.
ValidateMock(r) ==
    IF r.mock = "gone" THEN "mock.file not found"
    ELSE IF r.mockDelayMs < 0 THEN "mock.delay_ms cannot be negative"
    ELSE "nil"

\* validateRoute: the method, then the stateful rules, then the mock.
ValidateRoute(r) ==
    IF r.method \notin AllowedMethods THEN "invalid method"
    ELSE IF r.stateful /\ r.mock = "none" THEN "stateful route must define a mock"
    ELSE IF r.mock = "none" THEN "nil"
    ELSE IF ValidateMock(r) # "nil" THEN ValidateMock(r)
    ELSE IF r.stateful /\ r.mock = "empty" THEN "stateful route requires a mock body"
    ELSE "nil"

\* validateAndApplyDefaults: the first route that fails validation fails the load.
ValidateAndApplyDefaults(c) ==
    IF \E i \in 1..Len(c.routes) : ValidateRoute(c.routes[i]) # "nil"
    THEN ValidateRoute(c.routes[CHOOSE i \in 1..Len(c.routes) :
                           /\ ValidateRoute(c.routes[i]) # "nil"
                           /\ \A j \in 1..(i - 1) : ValidateRoute(c.routes[j]) = "nil"])
    ELSE "nil"

\* LoadConfig: read, parse, validate.
LoadConfig(f) ==
    IF ~f.readable THEN [err |-> "failed to read config file", cfg |-> f.cfg]
    ELSE IF ~f.parses THEN [err |-> "failed to parse config", cfg |-> f.cfg]
    ELSE [err |-> ValidateAndApplyDefaults(f.cfg), cfg |-> f.cfg]

\* validateDelay: the only place that knows the limit; nothing calls it.
MaxDelayMs == 10000
ValidateDelay(delay) == IF delay > MaxDelayMs THEN "delay too high" ELSE "nil"

\* computeDelay: the server's default, overridden by the route, overridden by the mock.
ComputeDelay(routeDelay, cfgDelay, defaultDelay) ==
    LET d1 == IF routeDelay # 0 THEN routeDelay ELSE defaultDelay
        d2 == IF cfgDelay # 0 THEN cfgDelay ELSE d1
    IN IF d2 < 0 THEN [delay |-> 0, err |-> "delay_ms cannot be negative"]
       ELSE [delay |-> d2, err |-> "nil"]

\* newMockHandler, through createRouteHandler: a mock needs a body or a file.
CreateRouteHandler(r, c) ==
    IF r.mock = "none" THEN [err |-> "nil", delayMs |-> 0]
    ELSE IF r.method \notin AllowedMethods THEN [err |-> "invalid HTTP method", delayMs |-> 0]
    ELSE IF ComputeDelay(r.delayMs, r.mockDelayMs, c.delayMs).err # "nil"
    THEN [err |-> ComputeDelay(r.delayMs, r.mockDelayMs, c.delayMs).err, delayMs |-> 0]
    ELSE IF r.mock \in {"body", "file"}
    THEN [err |-> "nil", delayMs |-> ComputeDelay(r.delayMs, r.mockDelayMs, c.delayMs).delay]
    ELSE [err |-> "mock must define either 'body' or 'file'", delayMs |-> 0]

\* registerRoute: the switch has a case for GET, POST, PUT, PATCH and DELETE.
RegisterRoute(routes, method, path, name, delayMs) ==
    IF method \in {"GET", "POST", "PUT", "PATCH", "DELETE"}
    THEN Append(routes, [method |-> method, path |-> path, name |-> name, delayMs |-> delayMs])
    ELSE routes

\* registerUserRoutes: route by route; the first handler that cannot be built
\* stops the process (StopWithError) with the earlier routes registered.
RECURSIVE RegisterFrom(_, _, _)
RegisterFrom(c, i, routes) ==
    IF i > Len(c.routes) THEN [routes |-> routes, exit |-> FALSE]
    ELSE LET r == c.routes[i]
             h == CreateRouteHandler(r, c)
         IN IF h.err # "nil" THEN [routes |-> routes, exit |-> TRUE]
            ELSE RegisterFrom(c, i + 1, RegisterRoute(routes, r.method, r.path, r.name, h.delayMs))
RegisterUserRoutes(c) == RegisterFrom(c, 1, <<>>)

\* The router: the first registered route of the method and path answers,
\* RegisterFallback answers the rest.
RouteNotFound == "ROUTE_NOT_FOUND"
Dispatch(routes, method, path) ==
    IF \E i \in 1..Len(routes) : routes[i].method = method /\ routes[i].path = path
    THEN routes[CHOOSE i \in 1..Len(routes) :
                   /\ routes[i].method = method /\ routes[i].path = path
                   /\ \A j \in 1..(i - 1) : ~(routes[j].method = method /\ routes[j].path = path)]
    ELSE [method |-> method, path |-> path, name |-> RouteNotFound, delayMs |-> 0]

\* A fiber.App: the routes registered on it, whether it listens, and the
\* requests it is serving.
App(c, state) ==
    [cfg |-> c, routes |-> RegisterUserRoutes(c).routes, state |-> state, inflight |-> 0]
MaxGenerations == 3
MaxInflight == 1
NoServed == [gen |-> 0, method |-> "", path |-> "", name |-> "", delayMs |-> 0]
NoProc == [alive |-> TRUE, pc |-> "idle", cfg |-> FirstConfig, dirty |-> FALSE,
           outcome |-> "none", served |-> NoServed, refused |-> FALSE, sig |-> "none"]

\* cors.New() runs before the router: an OPTIONS request is a preflight it
\* answers itself, or one it passes on, by the library's version.
CorsNoContent == "CORS_NO_CONTENT"
Answers(routes, method, path) ==
    IF method = "OPTIONS"
    THEN {[method |-> method, path |-> path, name |-> CorsNoContent, delayMs |-> 0],
          Dispatch(routes, method, path)}
    ELSE {Dispatch(routes, method, path)}
RequestChoices == {<<"GET", "/a">>, <<"POST", "/b">>, <<"OPTIONS", "/a">>, <<"GET", "/d">>,
                   <<"GET", "/r">>, <<"GET", "/zz">>}

\* ------------------------------------------------------------------ file mocks
\* The items of a file mock: objects with a string field and a number field,
\* either of which an item may lack. Strings are sequences of characters.
Fields == {"name", "age"}
ItemAb == [name |-> Chars(<<"A", "b">>), age |-> Num(12)]
ItemLowerAb == [name |-> Chars(<<"a", "b">>), age |-> Num(1)]
ItemB == [name |-> Chars(<<"B">>), age |-> Absent]
ItemNoName == [name |-> Absent, age |-> Num(1)]
Items == {ItemAb, ItemLowerAb, ItemB, ItemNoName}
DataLen == 3
DataChoices == {d \in [1..DataLen -> Items] : \A i, j \in 1..DataLen : d[i] = d[j] => i = j}

\* The parameters of the request, a Go map from key to string: Absent is a key
\* the map does not have.
ExactKeys == {"name", "age"}
LikeKeys == {"name_like", "age_like"}
ParamChoices ==
    [name : {Absent, Chars(<<"a", "b">>)},
     age : {Absent, Chars(<<"1">>), Chars(<<"1", "2">>)},
     name_like : {Absent, Chars(<<"a">>), Chars(<<"B">>)},
     age_like : {Absent, Chars(<<"1">>)},
     _sort : {Absent, Chars(<<"n", "a", "m", "e">>), Chars(<<"a", "g", "e">>)},
     _order : {Absent, Chars(<<"D", "E", "S", "C">>)},
     _page : {Absent, Chars(<<"2">>)},
     _limit : {Absent, Chars(<<"1">>), Chars(<<"2">>), Chars(<<"x">>)}]
Present(params, keys) == {k \in keys : params[k] # Absent}
\* params[key] of a Go map: the empty string when the key is missing.
ParamOr(params, key) == IF params[key] = Absent THEN <<>> ELSE params[key][2]
LikeField(key) == IF key = "name_like" THEN "name" ELSE "age"
FieldNamed(cs) ==
    IF cs = <<"n", "a", "m", "e">> THEN "name" ELSE IF cs = <<"a", "g", "e">> THEN "age" ELSE "none"
ItemGet(item, field) == IF field \in Fields THEN item[field] ELSE Absent

\* fmt.Sprintf("%.0f", val) and fmt.Sprintf("%v", v) of a whole number below 1e+06.
RECURSIVE DecimalChars(_)
DecimalChars(n) == IF n < 10 THEN <<Digit(n)>> ELSE DecimalChars(n \div 10) \o <<Digit(n % 10)>>
SprintChars(v) == IF IsNum(v) THEN DecimalChars(v[2]) ELSE v[2]

\* fmt.Sscanf(val, "%d", &n): the leading digits, an error when there is none.
DigitOf(ch) ==
    CASE ch = "0" -> 0 [] ch = "1" -> 1 [] ch = "2" -> 2 [] ch = "3" -> 3 [] ch = "4" -> 4
      [] ch = "5" -> 5 [] ch = "6" -> 6 [] ch = "7" -> 7 [] ch = "8" -> 8 [] ch = "9" -> 9
      [] OTHER -> -1
RECURSIVE ScanDigits(_, _)
ScanDigits(cs, acc) ==
    IF cs = <<>> \/ DigitOf(Head(cs)) < 0 THEN acc
    ELSE ScanDigits(Tail(cs), 10 * acc + DigitOf(Head(cs)))
Sscanf(cs) ==
    IF cs = <<>> \/ DigitOf(Head(cs)) < 0 THEN [err |-> TRUE, n |-> 0]
    ELSE [err |-> FALSE, n |-> ScanDigits(cs, 0)]

\* strings.Contains
ContainsSub(s, needle) ==
    \E i \in 0..(Len(s) - Len(needle)) : SubSeq(s, i + 1, i + Len(needle)) = needle

\* Go compares strings byte by byte.
Alphabet == <<"0", "1", "2", "3", "4", "5", "6", "7", "8", "9", "A", "B", "a", "b">>
Code(ch) == CHOOSE i \in 1..Len(Alphabet) : Alphabet[i] = ch
RECURSIVE StrLess(_, _)
StrLess(a, b) ==
    IF b = <<>> THEN FALSE
    ELSE IF a = <<>> THEN TRUE
    ELSE IF Code(Head(a)) # Code(Head(b)) THEN Code(Head(a)) < Code(Head(b))
    ELSE StrLess(Tail(a), Tail(b))

\* matchExact
MatchExact(v, target) ==
    IF IsNum(v) THEN target = DecimalChars(v[2])
    ELSE IF IsChars(v) THEN v[2] = target
    ELSE FALSE

\* applyExactFilters, one turn of its loop: the items that have the key and match.
ApplyExactFilter(data, key, val) ==
    LET Keep(item) == item[key] # Absent /\ MatchExact(item[key], val)
    IN SelectSeq(data, Keep)

\* applyLikeFilters, one turn of its loop.
ApplyLikeFilter(data, key, val) ==
    LET Keep(item) == /\ item[LikeField(key)] # Absent
                      /\ ContainsSub(ToLower(SprintChars(item[LikeField(key)])), ToLower(val))
    IN SelectSeq(data, Keep)

\* compareValues of the sort: numbers with numbers, strings with the other's print.
SortCompareValues(a, b, order) ==
    IF IsNum(a)
    THEN LET vb == IF IsNum(b) THEN b[2] ELSE 0
         IN IF order = <<"d", "e", "s", "c">> THEN a[2] > vb ELSE a[2] < vb
    ELSE IF order = <<"d", "e", "s", "c">> THEN StrLess(SprintChars(b), a[2])
         ELSE StrLess(a[2], SprintChars(b))

\* Mutant: a comparison that puts equal values in front too.
LessOrEqual(x, y, field, order) ==
    LET vi == ItemGet(x, field)
        vj == ItemGet(y, field)
    IN IF vi = Absent THEN FALSE
       ELSE IF vj = Absent THEN TRUE
       ELSE ~SortCompareValues(vj, vi, order)

\* The less function applySorting gives to sort.SliceStable.
Less(x, y, field, order) ==
    LET vi == ItemGet(x, field)
        vj == ItemGet(y, field)
    IN IF vi = Absent /\ vj = Absent THEN FALSE
       ELSE IF vi = Absent THEN FALSE
       ELSE IF vj = Absent THEN TRUE
       ELSE SortCompareValues(vi, vj, order)

\* sort.SliceStable on no more than 20 items is one insertion sort:
\* for i := a + 1; i < b; i++ { for j := i; j > a && less(j, j-1); j-- { swap } }
RECURSIVE Sink(_, _, _, _)
Sink(d, j, field, order) ==
    IF j > 1 /\ Less(d[j], d[j - 1], field, order)
    THEN Sink([d EXCEPT ![j] = d[j - 1], ![j - 1] = d[j]], j - 1, field, order)
    ELSE d
RECURSIVE InsertionSort(_, _, _, _)
InsertionSort(d, i, field, order) ==
    IF i > Len(d) THEN d ELSE InsertionSort(Sink(d, i, field, order), i + 1, field, order)

\* applySorting
ApplySorting(data, params) ==
    IF ParamOr(params, "_sort") = <<>> THEN data
    ELSE InsertionSort(data, 2, FieldNamed(ParamOr(params, "_sort")),
                       ToLower(ParamOr(params, "_order")))

\* applyPagination
ApplyPagination(data, params) ==
    LET l == IF params["_limit"] = Absent THEN [err |-> FALSE, n |-> 0]
             ELSE Sscanf(params["_limit"][2])
        pg == IF params["_page"] = Absent THEN [err |-> FALSE, n |-> 1]
              ELSE Sscanf(params["_page"][2])
        start == (pg.n - 1) * l.n
        end == IF start + l.n > Len(data) THEN Len(data) ELSE start + l.n
    IN IF l.err \/ l.n < 0 THEN [err |-> "_limit must be a positive number", data |-> <<>>]
       ELSE IF pg.err \/ pg.n < 1 THEN [err |-> "_page must be a positive number", data |-> <<>>]
       ELSE IF l.n <= 0 THEN [err |-> "nil", data |-> data]
       ELSE IF start >= Len(data) THEN [err |-> "nil", data |-> <<>>]
       ELSE [err |-> "nil", data |-> SubSeq(data, start + 1, end)]

NoFilter == [stage |-> "idle", data |-> <<>>, params |-> [k \in {} |-> Absent], cur |-> <<>>,
             todo |-> {}, err |-> "nil"]
\* The request log at start: StartServer has started one aggregator, which
\* waits in its select; nothing was sent yet.
IdleTask == [pc |-> "select", entry |-> 0]
NoLog == [tasks |-> 1, at |-> <<IdleTask>>, chan |-> <<>>, logs |-> <<>>, sent |-> 0]

\* No request under evaluation.
NoSent == [headers |-> <<>>, query |-> <<>>, body |-> <<>>]
NoEval == [pc |-> "idle", raw |-> NoSent, twin |-> NoSent, cases |-> <<>>,
           first |-> -2, again |-> -2, other |-> -2]

\* Mutant: a case without a body answers with the body of the route's mock.
CaseResponseMockBody(route, i, x, hp) ==
    LET then == route.cases[i].then
        body == IF then.body = "" /\ route.mock.set THEN route.mock.body ELSE then.body
    IN WithHeaders(Written(then.status,
                           ProcessTemplateJSON(body, x.state, route.stateful.set), hp),
                   then.headers)

\* if match { ... }: the case's headers, its expanded body, its status.
CaseResponse(route, i, x, hp) ==
    LET then == route.cases[i].then
    IN WithHeaders(Written(then.status,
                           ProcessTemplateJSON(then.body, x.state, route.stateful.set), hp),
                   then.headers)

\* Mutant: the fetch handler is preferred to the mock handler.
RouteResponseFetchFirst(route, rq, x, hp) ==
    LET i == CaseLoop(route.cases, 1, x)
    IN IF i < 0 THEN {ResponseError(StatusInternalServerError, "CASE_EVAL_ERROR")}
       ELSE IF i > 0
       THEN {CaseResponse(route, i, x, hp)}
       ELSE IF route.fetch THEN FetchHandler
       ELSE IF route.mock.set THEN MockHandler(route, rq, x, hp)
       ELSE IF route.default.set
       THEN {WithHeaders(Written(route.default.status,
                                 ProcessTemplateJSON(route.default.body, x.state,
                                                     route.stateful.set), hp),
                         route.default.headers)}
       ELSE {ResponseError(StatusNotFound, "HANDLER_NOT_MATCHED")}

\* createRouteHandler after the stateful step: the case loop, the base handler,
\* the default response.
RouteResponse(route, rq, x, hp) ==
    LET i == CaseLoop(route.cases, 1, x)
    IN IF i < 0 THEN {ResponseError(StatusInternalServerError, "CASE_EVAL_ERROR")}
       ELSE IF i > 0
       THEN {CaseResponse(route, i, x, hp)}
       ELSE IF route.mock.set THEN MockHandler(route, rq, x, hp)
       ELSE IF route.fetch THEN FetchHandler
       ELSE IF route.default.set
       THEN {WithHeaders(Written(route.default.status,
                                 ProcessTemplateJSON(route.default.body, x.state,
                                                     route.stateful.set), hp),
                         route.default.headers)}
       ELSE {ResponseError(StatusNotFound, "HANDLER_NOT_MATCHED")}

\* The steps of the code RouteResponse stands for, in the order they run: each
\* case whose condition is evaluated, then what the base handler does.
Step(name) == <<name, 0>>
CaseStep(i) == <<"case", i>>
\* A call of applyDelay, or the wait of the fetch handler, whose route is taken
\* with a positive delay.
DelayStep == <<"delay", 0>>
RECURSIVE CaseSteps(_, _, _)
CaseSteps(cases, i, x) ==
    IF i > Len(cases) THEN <<>>
    ELSE IF EvaluateCondition(cases[i].when, x) = "false"
         THEN <<CaseStep(i)>> \o CaseSteps(cases, i + 1, x)
         ELSE IF EvaluateCondition(cases[i].when, x) = "true"
         THEN <<CaseStep(i), DelayStep>>
         ELSE <<CaseStep(i)>>
MockStepsDelayTwice(route, rq) ==
    <<DelayStep, Step("mock"), DelayStep>>
MockSteps(route, rq) ==
    <<Step("mock"), DelayStep>>
    \o (IF ShouldParseBody(route.method, rq.body) THEN <<Step("parse")>> ELSE <<>>)
    \o (IF ShouldParseBody(route.method, rq.body) /\ rq.body # BadBody /\ route.schema.set
        THEN <<Step("schema")>> ELSE <<>>)
RouteSteps(route, rq, x) ==
    CaseSteps(route.cases, 1, x)
    \o (IF CaseLoop(route.cases, 1, x) # 0 THEN <<>>
        ELSE IF route.mock.set THEN MockSteps(route, rq)
        ELSE IF route.fetch THEN <<Step("fetch"), DelayStep>>
        ELSE IF route.default.set THEN <<Step("default"), DelayStep>>
        ELSE <<>>)

\* ------------------------------------------------------------------ requests
NoReq == [route |-> "", headers |-> NoHeaders, query |-> NoQuery, body |-> NoBody, id |-> ""]
WithHeader(name, v) == [headers |-> [NoHeaders EXCEPT ![ToLower(name)] = v], query |-> NoQuery]
WithQuery(name, v) == [headers |-> NoHeaders, query |-> [NoQuery EXCEPT ![name] = v]]

\* What a client presents: nothing, or one header or query parameter.
Presented ==
    {[headers |-> NoHeaders, query |-> NoQuery],
     WithHeader(XSecret, SecretKey), WithHeader(XSecret, WrongKey),
     WithHeader(Authorization, BearerPrefix \o BearerKey),
     WithHeader(Authorization, ToLower(BearerPrefix) \o BearerKey \o <<" ">>),
     WithHeader(Authorization, BearerPrefix \o WrongKey),
     WithHeader(Authorization, SecretKey),
     WithQuery(Token, SecretKey), WithQuery(Token, WrongKey)}

PipeBodies == {b \in Bodies : b["id"] # Str("1") /\ b["name"] # Str("a")}
RawBodies(route) ==
    IF route.method \in {"POST", "PUT"}
    THEN {NoBody, BadBody} \cup {JsonBody(b) : b \in PipeBodies}
    ELSE {NoBody}
LogicBodies == Bodies \cup {[k \in Keys |-> IF k = "id" THEN Num(2) ELSE Num(1)]}
LogicRaw == {NoBody, BadBody} \cup {JsonBody(b) : b \in LogicBodies}
RequestsOf(n) ==
    {[route |-> n, headers |-> c.headers, query |-> c.query, body |-> raw, id |-> id] :
        c \in Presented,
        raw \in IF n \in LogicNames THEN LogicRaw ELSE RawBodies(RouteConfigOf(n)),
        id \in IF RouteConfigOf(n).hasId THEN PathIds ELSE {""}}

\* ------------------------------------------------------------------ state
VARIABLES
    collections,    \* store.collections: collection name -> sequence of record addresses
    heap,           \* the records (Go maps), by address; Free when not yet allocated
    mu,             \* store.mu: the caller holding the lock, NoHolder when free
    pc,             \* where each caller is
    cfg,            \* the StatefulConfig of the caller's operation
    ctx,            \* the caller's EContext: Body, Path, State
    col,            \* the caller's local col, read under the lock
    err,            \* the error ApplyStateful returns to the caller
    lin,            \* history: the store of the sequential execution in lock order
    linRes,         \* history: each caller's result in that sequential execution
    fresh,          \* history: the id of a create matched no record when it was called
    req,            \* the HTTP request each caller's pipeline is serving, NoReq when none
    resp,           \* the HTTP response written for it, NoResp until then
    made,           \* history: per id, the record its last successful create stored,
                    \* forgotten when an update or delete of that id is applied
    before,         \* history: the store as it was when the request was received
    ran             \* history: the steps of the pipeline that ran for the request

storeVars == <<collections, heap, mu>>
callVars == <<pc, cfg, ctx, col, err>>
histVars == <<lin, linRes, fresh>>
pipeVars == <<req, resp, made, before, ran>>

\* The process around the router, and one proxy call seen from inside.
VARIABLES
    file,           \* the config file on disk: what LoadConfig would read
    rt,             \* Runtime: App (the generation rt.App points at), Cfg, Mu
    apps,           \* every fiber.App built so far, by generation
    proc,           \* the process: running or exited, and where reloadServer is
    watcher,        \* watchConfigFile: the clock, reloadTimer and the events seen
    fx,             \* FetchHandler.handler: one proxy call and its upstream
    fq,             \* FilteredMockData: one call, its data, its params and its stage
    agg,            \* the request log: logChannel, requestLogs and the aggregator tasks
    ev              \* one request as sent, the EContext built from it and the case chosen

envVars == <<file, rt, apps, proc, watcher, fx, fq, agg, ev>>
vars == <<collections, heap, mu, pc, cfg, ctx, col, err, lin, linRes, fresh, req, resp, made,
          before, ran, file, rt, apps, proc, watcher, fx, fq, agg, ev>>

NoResult == [state |-> EmptyState, err |-> "nil"]
NoRecord == <<"none">>

\* The parts of the program a specification does not run stay as they are.
InitEnv ==
    /\ file = FileOf(FirstConfig)
    /\ rt = [App |-> 1, Cfg |-> FirstConfig, Mu |-> "free"]
    /\ apps = <<App(FirstConfig, "listening")>>
    /\ proc = NoProc
    /\ watcher = NoWatch
    /\ fx = NoCall
    /\ fq = NoFilter
    /\ agg = NoLog
    /\ ev = NoEval

\* NewStateStore: no collection yet, which reads as the empty sequence.
InitServer ==
    /\ collections = [c \in Collections |-> <<>>]
    /\ heap = [r \in Refs |-> Free]
    /\ mu = NoHolder
    /\ pc = [p \in Callers |-> "idle"]
    /\ cfg = [p \in Callers |-> NoCfg]
    /\ ctx = [p \in Callers |-> EmptyCtx]
    /\ col = [p \in Callers |-> <<>>]
    /\ err = [p \in Callers |-> "nil"]
    /\ lin = [collections |-> [c \in Collections |-> <<>>], heap |-> [r \in Refs |-> Free]]
    /\ linRes = [p \in Callers |-> NoResult]
    /\ fresh = [p \in Callers |-> FALSE]
    /\ req = [p \in Callers |-> NoReq]
    /\ resp = [p \in Callers |-> NoResp]
    /\ made = [id \in PathIds |-> NoRecord]
    /\ before = [collections |-> [c \in Collections |-> <<>>], heap |-> [r \in Refs |-> Free]]
    /\ ran = [p \in Callers |-> <<>>]
Init == InitServer /\ InitEnv

\* The inputs of one operation: the parts the action reads vary, the rest is empty.
PathOf(id) == [k \in Keys |-> IF k = "id" THEN id ELSE ""]
InputsOf(a, bodies) ==
    CASE a = "create" -> [body : bodies, path : {EmptyPath}]
      [] a = "list" -> [body : {EmptyBody}, path : {EmptyPath}]
      [] a = "update" -> [body : bodies, path : {PathOf(id) : id \in PathIds}]
      [] OTHER -> [body : {EmptyBody}, path : {PathOf(id) : id \in PathIds}]

\* Creates that may still allocate a record.
PendingCreates == {q \in Callers : pc[q] \in {"lock", "locked"} /\ cfg[q].action = "create"}
RoomFor(a, max) ==
    a = "create" => Cardinality(Allocated(heap)) + Cardinality(PendingCreates) < max

IdPresent(sc, b) ==
    \E i \in 1..Len(collections[sc.collection]) :
        Sprint(heap[collections[sc.collection][i]][IDFieldOf(sc)]) = Sprint(b[IDFieldOf(sc)])

\* A caller starts ApplyStateful(store, cfg, ctx) with a context of its own.
Call(p, configs, bodies, max) ==
    /\ pc[p] = "idle"
    /\ \E sc \in configs : \E in \in InputsOf(sc.action, bodies) :
        /\ RoomFor(sc.action, max)
        /\ cfg' = [cfg EXCEPT ![p] = sc]
        /\ ctx' = [ctx EXCEPT ![p] = [body |-> in.body, path |-> in.path, state |-> EmptyState]]
        /\ fresh' = [fresh EXCEPT ![p] = sc.action = "create" /\ ~IdPresent(sc, in.body)]
    /\ pc' = [pc EXCEPT ![p] = "lock"]
    /\ UNCHANGED <<storeVars, col, err, lin, linRes, pipeVars, envVars>>

\* Mutant: Lock() that does not wait.
MuNoWait == TRUE

\* store.mu.Lock() returns only when no one holds the lock.
MuFree == mu = NoHolder

\* store.mu.Lock(); col := store.collections[cfg.Collection]
StoreLock(p) ==
    /\ pc[p] = "lock"
    /\ MuFree
    /\ mu' = p
    /\ col' = [col EXCEPT ![p] = collections[cfg[p].collection]]
    /\ pc' = [pc EXCEPT ![p] = "locked"]
    /\ LET r == ApplyStateful(lin.collections[cfg[p].collection], lin.heap, cfg[p], ctx[p])
       IN /\ lin' = [collections |-> IF r.written
                                      THEN [lin.collections EXCEPT ![cfg[p].collection] = r.stored]
                                      ELSE lin.collections,
                      heap |-> r.heap]
          /\ linRes' = [linRes EXCEPT ![p] = [state |-> r.state, err |-> r.err]]
    /\ UNCHANGED <<collections, heap, cfg, ctx, err, fresh, pipeVars, envVars>>

\* The switch on cfg.Action, run on the local col.
StoreApply(p) ==
    /\ pc[p] = "locked"
    /\ LET r == ApplyStateful(col[p], heap, cfg[p], ctx[p])
       IN /\ heap' = r.heap
          /\ collections' = IF r.written
                             THEN [collections EXCEPT ![cfg[p].collection] = r.stored]
                             ELSE collections
          /\ col' = [col EXCEPT ![p] = r.col]
          /\ ctx' = [ctx EXCEPT ![p].state = r.state]
          /\ err' = [err EXCEPT ![p] = r.err]
    /\ pc' = [pc EXCEPT ![p] = "unlock"]
    /\ UNCHANGED <<mu, cfg, histVars, req, resp, before, envVars>>

\* defer store.mu.Unlock(), then the return to the caller.
StoreUnlock(p) ==
    /\ pc[p] = "unlock"
    /\ mu' = IF mu = p THEN NoHolder ELSE mu
    /\ pc' = [pc EXCEPT ![p] = "ret"]
    /\ UNCHANGED <<collections, heap, cfg, ctx, col, err, histVars, pipeVars, envVars>>

\* The caller has looked at err and ctx.State and drops the context.
Return(p) ==
    /\ pc[p] = "ret"
    /\ pc' = [pc EXCEPT ![p] = "idle"]
    /\ cfg' = [cfg EXCEPT ![p] = NoCfg]
    /\ ctx' = [ctx EXCEPT ![p] = EmptyCtx]
    /\ col' = [col EXCEPT ![p] = <<>>]
    /\ err' = [err EXCEPT ![p] = "nil"]
    /\ linRes' = [linRes EXCEPT ![p] = NoResult]
    /\ fresh' = [fresh EXCEPT ![p] = FALSE]
    /\ UNCHANGED <<storeVars, lin, pipeVars, envVars>>

\* ApplyStateful as its direct callers see it.
StoreStep(p) ==
    StoreLock(p) \/ (StoreApply(p) /\ UNCHANGED <<made, ran>>) \/ StoreUnlock(p) \/ Return(p)

\* One caller of ApplyStateful, any action, one operation after the other.
SeqCallers == {p \in Callers : \A q \in Callers : p <= q}
NextStore == \E p \in SeqCallers : Call(p, StatefulConfigs, Bodies, MaxRecords) \/ StoreStep(p)
SpecStore == Init /\ [][NextStore]_vars

\* Callers that only create.
CreateConfigs == {sc \in StatefulConfigs : sc.action = "create"}
NextCreate == \E p \in Callers : Call(p, CreateConfigs, Bodies, MaxRecords) \/ StoreStep(p)
SpecCreate == Init /\ [][NextCreate]_vars

\* Concurrent callers that create, update and delete, on fewer records and bodies.
MaxConcRecords == 2
ConcBodies == {b \in Bodies : b["id"] # Str("1") /\ b["name"] # Str("a") /\ b # EmptyBody}
ConcConfigs == {sc \in StatefulConfigs : sc.action \in {"create", "update", "delete"}}
NextConc == \E p \in Callers : Call(p, ConcConfigs, ConcBodies, MaxConcRecords) \/ StoreStep(p)
SpecConc == Init /\ [][NextConc]_vars

\* ------------------------------------------------------------------ pipeline
\* One request through the router: authMiddleware, then the handler that
\* createRouteHandler returns.
MaxPipeRecords == 2
RouteOf(p) == RouteConfigOf(req[p].route)
IsCreate(n) == RouteConfigOf(n).stateful.cfg.action = "create"
BeforeCommit(q) == req[q] # NoReq /\ IsCreate(req[q].route)
                       /\ pc[q] \in {"auth", "handler", "lock", "locked"}
PipeRoom(n, max) ==
    IsCreate(n) =>
        Cardinality(Allocated(heap)) + Cardinality({q \in Callers : BeforeCommit(q)}) < max

\* The router hands a request to its route.
ReceiveOn(p, names, max) ==
    /\ pc[p] = "idle"
    /\ \E n \in names : \E rq \in RequestsOf(n) :
        /\ PipeRoom(n, max)
        /\ req' = [req EXCEPT ![p] = rq]
    /\ before' = [collections |-> collections, heap |-> heap]
    /\ pc' = [pc EXCEPT ![p] = "auth"]
    /\ UNCHANGED <<storeVars, cfg, ctx, col, err, histVars, resp, made, ran, envVars>>

Receive(p, max) == ReceiveOn(p, RouteNames, max)
ReceiveLogic(p) == ReceiveOn(p, LogicNames, MaxPipeRecords)

\* authMiddleware(cfg.Server.Auth, route.Auth)
AuthGate(p) ==
    /\ pc[p] = "auth"
    /\ LET a == AuthMiddleware(GlobalAuth, RouteOf(p).auth, req[p])
       IN IF a.pass
          THEN pc' = [pc EXCEPT ![p] = "handler"] /\ UNCHANGED resp
          ELSE /\ pc' = [pc EXCEPT ![p] = "done"]
               /\ resp' = [resp EXCEPT ![p] = ResponseError(a.status, a.code)]
    /\ ran' = [ran EXCEPT ![p] = Append(@, Step("auth"))]
    /\ UNCHANGED <<storeVars, cfg, ctx, col, err, histVars, req, made, before, envVars>>

\* Build EContext; with a stateful route, enter ApplyStateful.
BuildContext(p) ==
    /\ pc[p] = "handler"
    /\ LET body == UnmarshalBody(req[p].body)
           sf == RouteOf(p).stateful
       IN /\ ctx' = [ctx EXCEPT ![p] = [body |-> body, path |-> PathOf(req[p].id),
                                        state |-> EmptyState]]
          /\ IF sf.set
             THEN /\ cfg' = [cfg EXCEPT ![p] = sf.cfg]
                  /\ fresh' = [fresh EXCEPT ![p] = sf.cfg.action = "create"
                                                     /\ ~IdPresent(sf.cfg, body)]
                  /\ pc' = [pc EXCEPT ![p] = "lock"]
             ELSE /\ pc' = [pc EXCEPT ![p] = "cases"]
                  /\ UNCHANGED <<cfg, fresh>>
    /\ ran' = [ran EXCEPT ![p] = Append(@, Step("context"))]
    /\ UNCHANGED <<storeVars, col, err, lin, linRes, req, resp, made, before, envVars>>

\* The text of an id as a path carries it.
IdText(v) == IF v = Absent THEN "<nil>" ELSE IF IsNum(v) THEN Decimal(v[2]) ELSE v[2]

\* The switch of ApplyStateful inside the pipeline, with the history of what
\* each id's last create stored.
PipeApply(p) ==
    /\ StoreApply(p)
    /\ made' = IF err'[p] # "nil" THEN made
               ELSE CASE cfg[p].action = "create" ->
                           [made EXCEPT ![IdText(ctx[p].body["id"])] = ctx[p].body]
                      [] cfg[p].action \in {"update", "delete"} ->
                           [made EXCEPT ![ctx[p].path["id"]] = NoRecord]
                      [] OTHER -> made
    /\ ran' = [ran EXCEPT ![p] = Append(@, Step("stateful"))]

\* if err := ApplyStateful(...); err != nil { return handleStateError(...) }
StateResult(p) ==
    /\ pc[p] = "ret"
    /\ IF err[p] # "nil"
       THEN /\ resp' = [resp EXCEPT ![p] = HandleStateError(err[p])]
            /\ pc' = [pc EXCEPT ![p] = "done"]
       ELSE /\ pc' = [pc EXCEPT ![p] = "cases"]
            /\ UNCHANGED resp
    /\ UNCHANGED <<storeVars, cfg, ctx, col, err, histVars, req, made, before, ran, envVars>>

\* The case loop, the base handler or the default response writes the response.
Respond(p) ==
    /\ pc[p] = "cases"
    /\ \E rs \in RouteResponse(RouteOf(p), req[p], EContext(ctx[p], req[p]), heap) :
          resp' = [resp EXCEPT ![p] = rs]
    /\ ran' = [ran EXCEPT ![p] = @ \o RouteSteps(RouteOf(p), req[p], EContext(ctx[p], req[p]))]
    /\ pc' = [pc EXCEPT ![p] = "done"]
    /\ UNCHANGED <<storeVars, cfg, ctx, col, err, histVars, req, made, before, envVars>>

\* The response is sent and the request's context dropped.
Finish(p) ==
    /\ pc[p] = "done"
    /\ pc' = [pc EXCEPT ![p] = "idle"]
    /\ req' = [req EXCEPT ![p] = NoReq]
    /\ resp' = [resp EXCEPT ![p] = NoResp]
    /\ cfg' = [cfg EXCEPT ![p] = NoCfg]
    /\ ctx' = [ctx EXCEPT ![p] = EmptyCtx]
    /\ col' = [col EXCEPT ![p] = <<>>]
    /\ err' = [err EXCEPT ![p] = "nil"]
    /\ linRes' = [linRes EXCEPT ![p] = NoResult]
    /\ fresh' = [fresh EXCEPT ![p] = FALSE]
    /\ before' = [collections |-> collections, heap |-> heap]
    /\ ran' = [ran EXCEPT ![p] = <<>>]
    /\ UNCHANGED <<storeVars, lin, made, envVars>>

\* The server: one request at a time through the whole pipeline.
Next ==
    \E p \in SeqCallers :
        \/ Receive(p, MaxPipeRecords)
        \/ AuthGate(p)
        \/ BuildContext(p)
        \/ StoreLock(p)
        \/ PipeApply(p)
        \/ StoreUnlock(p)
        \/ StateResult(p)
        \/ Respond(p)
        \/ Finish(p)
Spec == Init /\ [][Next]_vars

\* The server with the routes that keep no state.
NextLogic ==
    \E p \in SeqCallers :
        \/ ReceiveLogic(p)
        \/ AuthGate(p)
        \/ BuildContext(p)
        \/ Respond(p)
        \/ Finish(p)
SpecLogic == Init /\ [][NextLogic]_vars

\* ================================================================== claims
\* The string projection of an id value as the specification has it: the decimal
\* text of a number, the text of a string.
IdTexts(c) == [i \in 1..Len(c) |-> IdText(heap[c[i]]["id"])]
Distinct(seq) == \A i, j \in 1..Len(seq) : i # j => seq[i] # seq[j]
Occurrences(c, r) == Cardinality({i \in 1..Len(c) : c[i] = r})
Finished(p) == pc[p] \in {"unlock", "ret"}
FinishedCreate(p) == Finished(p) /\ cfg[p].action = "create"

SameKey(p, q) ==
    /\ cfg[p].collection = cfg[q].collection
    /\ IdText(ctx[p].body["id"]) = IdText(ctx[q].body["id"])
Racing(p) == FinishedCreate(p) /\ fresh[p] /\ ctx[p].body["id"] # Absent
C2_OneCreateWins ==
    \A p \in Callers : Racing(p) =>
        /\ err[p] \in {"nil", "Conflict"}
        /\ Cardinality({i \in 1..Len(collections[cfg[p].collection]) :
               IdTexts(collections[cfg[p].collection])[i] = IdText(ctx[p].body["id"])}) = 1
        /\ \A q \in Callers \ {p} :
               (Racing(q) /\ SameKey(p, q)) => ~(err[p] = "nil" /\ err[q] = "nil")
        /\ (\A q \in Callers : Racing(q) /\ SameKey(p, q)) =>
               Cardinality({q \in Callers : err[q] = "nil"}) = 1

\* C2 witness: every caller created the same id, one as a number and one as a
\* string, all called before any of them committed, and all have returned.
C2_Witness ==
    /\ \A p, q \in Callers : Racing(p) /\ SameKey(p, q) /\ pc[p] = "ret"
    /\ \E p, q \in Callers : ctx[p].body["id"] = Num(1) /\ ctx[q].body["id"] = Str("1")

\* C3: concurrent create, update and delete are serialisable in the order in
\* which the operations took the lock, a point between each operation's call
\* and its return: whenever the lock is free the store equals the store of that
\* sequential execution, and every finished operation returned what it returns
\* there.
C3_Serialisable ==
    /\ mu = NoHolder => (collections = lin.collections /\ heap = lin.heap)
    /\ \A p \in Callers : Finished(p) =>
          (err[p] = linRes[p].err /\ ctx[p].state = linRes[p].state)

\* C3 witness: an update and a delete of the same record were in flight together
\* and both have returned, each with its own outcome.
C3_Witness ==
    \E p, q \in Callers :
        /\ pc[p] = "ret" /\ cfg[p].action = "update" /\ err[p] = "NotFound"
        /\ pc[q] = "ret" /\ cfg[q].action = "delete" /\ err[q] = "nil"
        /\ ctx[p].path = ctx[q].path

\* C4: after a successful create the collection has pairwise distinct ids, also
\* after updates whose patch carries the id field.
C4_UniqueAfterCreate ==
    \A p \in Callers :
        (pc[p] = "unlock" /\ cfg[p].action = "create" /\ err[p] = "nil")
        => Distinct(IdTexts(collections[cfg[p].collection]))

\* C5: an operation that fails changes no collection and no record; a create
\* without the id field fails with BadInput, a create of an id that is there
\* with Conflict, and a get, update or delete of an id that no record has with
\* NotFound.
Applying(p) == pc[p] = "locked" /\ pc'[p] = "unlock"
HasId(c, id) == \E i \in 1..Len(c) : IdTexts(c)[i] = id
C5_FailureChangesNothing ==
    [][\A p \in Callers : Applying(p) =>
          LET c == collections[cfg[p].collection]
              a == cfg[p].action
              b == ctx[p].body
          IN /\ (a = "create" /\ b["id"] = Absent) => err'[p] = "BadInput"
             /\ (a = "create" /\ b["id"] # Absent /\ HasId(c, IdText(b["id"])))
                    => err'[p] = "Conflict"
             /\ (a \in {"get", "update", "delete"} /\ ~HasId(c, ctx[p].path["id"]))
                    => err'[p] = "NotFound"
             /\ err'[p] # "nil" => (collections' = collections /\ heap' = heap)]_vars

\* C5 witness: each of the three failures has happened on a collection that
\* holds records.
C5_Witness ==
    \E p \in Callers :
        /\ pc[p] = "unlock" /\ err[p] = "Conflict"
        /\ Len(collections[cfg[p].collection]) = 2

\* C6: when a stateful create of record r with id x has succeeded in the store,
\* the response of that create carries r as its body, and every stateful get
\* of x answered while no update or delete of x has been applied since carries r
\* as its body.
C6_CreatedThenRead ==
    \A p \in Callers : pc[p] = "done" =>
        /\ (cfg[p].action = "create" /\ ctx[p].state.created # NilRef)
               => resp[p].body = <<"obj", ctx[p].body>>
        /\ (cfg[p].action = "get" /\ pc[p] = "done" /\ made[req[p].id] # NoRecord)
               => resp[p].body = <<"obj", made[req[p].id]>>

\* C7: a successful update merges the patch into the first record whose id is
\* the path id: the patch's keys take the patch's values, the record's other
\* keys, the other records and the collection's order stay, and state.updated
\* is that record.
C7_UpdateMerges ==
    [][\A p \in Callers : (Applying(p) /\ cfg[p].action = "update" /\ err'[p] = "nil") =>
          LET c == collections[cfg[p].collection]
              patch == ctx[p].body
          IN \E i \in 1..Len(c) :
               /\ IdTexts(c)[i] = ctx[p].path["id"]
               /\ \A j \in 1..(i - 1) : IdTexts(c)[j] # ctx[p].path["id"]
               /\ \A k \in Keys : heap'[c[i]][k] = IF patch[k] # Absent THEN patch[k]
                                                    ELSE heap[c[i]][k]
               /\ \A r \in Refs \ {c[i]} : heap'[r] = heap[r]
               /\ collections' = collections
               /\ ctx'[p].state.updated = c[i]]_vars

\* C7 witness: an update changed one key of a record of two keys, in a
\* collection of two records.
C7_Witness ==
    \E p \in Callers :
        /\ pc[p] = "unlock" /\ cfg[p].action = "update" /\ err[p] = "nil"
        /\ ctx[p].body["id"] = Absent /\ ctx[p].body["name"] = Str("b")
        /\ heap[ctx[p].state.updated] = [id |-> Num(2), name |-> Str("b")]
        /\ Len(collections[cfg[p].collection]) = 2

\* C8: a successful delete removes one record, the first whose id is the path
\* id: the collection is one record shorter, the others keep their order, and
\* state.list is the collection after the removal.
RemoveAt(c, i) == SubSeq(c, 1, i - 1) \o SubSeq(c, i + 1, Len(c))
C8_DeleteRemovesOne ==
    \A p \in Callers :
        (pc[p] = "unlock" /\ cfg[p].action = "delete" /\ err[p] = "nil") =>
            /\ Len(collections[cfg[p].collection]) = Len(col[p]) - 1
            /\ \E i \in 1..Len(col[p]) :
                  /\ IdTexts(col[p])[i] = ctx[p].path["id"]
                  /\ \A j \in 1..(i - 1) : IdTexts(col[p])[j] # ctx[p].path["id"]
                  /\ collections[cfg[p].collection] = RemoveAt(col[p], i)
            /\ ctx[p].state.list = collections[cfg[p].collection]

\* C9: update is idempotent: in every state the store can be in, an update
\* that succeeds leaves a store that the same update does not change again.
UpdateConfigs == {sc \in StatefulConfigs : sc.action = "update"}
StoreAfter(cs, hp, sc, x) ==
    LET r == ApplyStateful(cs[sc.collection], hp, sc, x)
    IN [collections |-> IF r.written THEN [cs EXCEPT ![sc.collection] = r.stored] ELSE cs,
        heap |-> r.heap, err |-> r.err]
C9_UpdateIdempotent ==
    mu = NoHolder =>
        \A sc \in UpdateConfigs : \A in \in InputsOf("update", Bodies) :
            LET x == [body |-> in.body, path |-> in.path, state |-> EmptyState]
                once == StoreAfter(collections, heap, sc, x)
                twice == StoreAfter(once.collections, once.heap, sc, x)
            IN once.err = "nil" =>
                 (twice.collections = once.collections /\ twice.heap = once.heap)

\* The effective auth config of a request's route, the credential the request
\* presents for it and whether the gate admits it.
EffectiveOf(p) == IF RouteOf(p).auth.set THEN RouteOf(p).auth ELSE GlobalAuth
PresentedTo(p) == Credential(EffectiveOf(p), req[p])
IsBearer(p) == ToLower(EffectiveOf(p).type) = Bearer
IsApiKey(p) == ToLower(EffectiveOf(p).type) = TypeApiKey
Member(p) ==
    /\ PresentedTo(p) # <<>>
    /\ (IF IsBearer(p) THEN BearerToken(PresentedTo(p)) ELSE PresentedTo(p))
           \in EffectiveOf(p).keys
Admitted(p) == ~EffectiveOf(p).enabled \/ ((IsBearer(p) \/ IsApiKey(p)) /\ Member(p))
PastGate == {"handler", "lock", "locked", "unlock", "ret", "cases"}
StoreAsBefore == collections = before.collections /\ heap = before.heap
GateCodes == {"AUTH_MISCONFIGURED", "MISSING_CREDENTIAL", "INVALID_API_KEY",
              "INVALID_BEARER_TOKEN", "UNSUPPORTED_AUTH_TYPE"}
Refusal(p) ==
    IF EffectiveOf(p).type = <<>>
    THEN ResponseError(StatusInternalServerError, "AUTH_MISCONFIGURED")
    ELSE IF PresentedTo(p) = <<>> THEN ResponseError(StatusUnauthorized, "MISSING_CREDENTIAL")
    ELSE IF IsApiKey(p) THEN ResponseError(StatusUnauthorized, "INVALID_API_KEY")
    ELSE IF IsBearer(p) THEN ResponseError(StatusUnauthorized, "INVALID_BEARER_TOKEN")
    ELSE ResponseError(StatusInternalServerError, "UNSUPPORTED_AUTH_TYPE")

\* C10: the authentication gate is the first step of the pipeline and uses the
\* route's auth config when the route has one, the global one otherwise. A
\* request is past the gate only if that config is disabled, or its type is
\* apiKey or bearer and the presented credential (for bearer without its
\* "Bearer " prefix, trimmed) is one of its keys. Every other request is
\* answered by the gate and changes no collection: 500 AUTH_MISCONFIGURED when
\* the config has no type, else 401 MISSING_CREDENTIAL when no credential is
\* presented, else 401 INVALID_API_KEY or INVALID_BEARER_TOKEN for a wrong
\* credential of those types, else 500 UNSUPPORTED_AUTH_TYPE. The gate refuses
\* no request it should admit.
C10_AuthGateFirst ==
    \A p \in Callers : req[p] # NoReq =>
        /\ pc[p] = "auth" => (ctx[p] = EmptyCtx /\ resp[p] = NoResp /\ StoreAsBefore)
        /\ pc[p] \in PastGate => Admitted(p)
        /\ (pc[p] = "done" /\ ~Admitted(p)) => (resp[p] = Refusal(p) /\ StoreAsBefore)
        /\ (pc[p] = "done" /\ Admitted(p)) => resp[p].code \notin GateCodes

\* C10 witness: a delete that presents the key the global config asks for, in
\* the header the global config names, is refused for the credential its own
\* route asks for, and the collection still holds its records.
C10_Witness ==
    \E p \in Callers :
        /\ pc[p] = "done" /\ req[p].route = "deleteUser"
        /\ req[p].headers[ToLower(XSecret)] = SecretKey
        /\ resp[p] = ResponseError(StatusUnauthorized, "MISSING_CREDENTIAL")
        /\ Len(collections["users"]) = 2

\* C10 as stated: a request is past the gate only if the effective config is
\* disabled or the presented credential is one of its keys, and every other
\* request is answered 401, MISSING_CREDENTIAL without a credential and
\* INVALID_API_KEY or INVALID_BEARER_TOKEN with a wrong one, and changes no
\* collection.
C10_AlwaysUnauthorized ==
    \A p \in Callers : req[p] # NoReq =>
        /\ pc[p] \in PastGate => (~EffectiveOf(p).enabled \/ Member(p))
        /\ (pc[p] = "done" /\ EffectiveOf(p).enabled /\ ~Member(p)) =>
              /\ resp[p].status = StatusUnauthorized
              /\ resp[p].code = IF PresentedTo(p) = <<>> THEN "MISSING_CREDENTIAL"
                                ELSE IF IsBearer(p) THEN "INVALID_BEARER_TOKEN"
                                ELSE "INVALID_API_KEY"
              /\ StoreAsBefore

\* ------------------------------------------------------------------ cases and sources
\* What a request's pipeline did, and what its conditions evaluate to.
Ran(p, step) == \E k \in 1..Len(ran[p]) : ran[p][k] = step
Answered(p) == pc[p] = "done" /\ Ran(p, Step("context"))
Seen(p) == EContext(ctx[p], req[p])
CondOf(p, i) == EvaluateCondition(RouteOf(p).cases[i].when, Seen(p))
FirstTrue(p, i) == CondOf(p, i) = "true" /\ \A j \in 1..(i - 1) : CondOf(p, j) = "false"
NoneTrue(p) == \A j \in 1..Len(RouteOf(p).cases) : CondOf(p, j) = "false"
SourceSteps == {Step("mock"), Step("fetch"), Step("default")}
DeclaredBody(then) == IF then.body = "" THEN NullValue ELSE Text(then.body)

\* C11: cases are evaluated in declaration order and the first case whose
\* condition is true, every earlier condition being false, wins: the response
\* has that case's status, headers and body, the cases up to it and no later
\* one were evaluated, and neither the mock, the fetch nor the default response
\* ran. When every condition is false, a route with a mock is answered by its
\* mock handler.
C11_FirstCaseWins ==
    \A p \in Callers : Answered(p) =>
        /\ \A i \in 1..Len(RouteOf(p).cases) : FirstTrue(p, i) =>
              /\ resp[p].status = RouteOf(p).cases[i].then.status
              /\ resp[p].headers = RouteOf(p).cases[i].then.headers
              /\ resp[p].body = DeclaredBody(RouteOf(p).cases[i].then)
              /\ \A j \in 1..Len(RouteOf(p).cases) : Ran(p, CaseStep(j)) <=> j <= i
              /\ \A st \in SourceSteps : ~Ran(p, st)
        /\ (NoneTrue(p) /\ RouteOf(p).mock.set) =>
              /\ Ran(p, Step("mock"))
              /\ \A j \in 1..Len(RouteOf(p).cases) : Ran(p, CaseStep(j))
              /\ resp[p].headers["X-Source"] = RouteOf(p).mock.headers["X-Source"]

\* Both cases of the route are true and the first has answered.
C11_Witness ==
    \E p \in Callers :
        /\ Answered(p)
        /\ Len(RouteOf(p).cases) = 2
        /\ CondOf(p, 1) = "true" /\ CondOf(p, 2) = "true"
        /\ resp[p].status = StatusCreated
\* The response sources that ran for a request, and the mark each leaves on
\* the response.
SourcesRun(p) == {st \in SourceSteps : Ran(p, st)}
FromMock(p) == resp[p].headers["X-Source"] = LogicMock.headers["X-Source"]
FromFetch(p) == resp[p] \in FetchHandler
FromDefault(p) ==
    /\ resp[p].status = LogicDefault.status
    /\ resp[p].headers = LogicDefault.headers
    /\ resp[p].body = DeclaredBody(LogicDefault)
Unmatched(p) == resp[p] = ResponseError(StatusNotFound, "HANDLER_NOT_MATCHED")

\* C12: a request that matches no case is answered by exactly one source, by
\* fixed priority: the mock handler if the route has a mock, otherwise the
\* fetch handler if it has a fetch, otherwise the default response, otherwise
\* 404 HANDLER_NOT_MATCHED; the default response is never used on a route that
\* has a mock or a fetch.
C12_SourcePriority ==
    \A p \in Callers : Answered(p) =>
        /\ NoneTrue(p) =>
              CASE RouteOf(p).mock.set -> SourcesRun(p) = {Step("mock")} /\ FromMock(p)
                [] RouteOf(p).fetch -> SourcesRun(p) = {Step("fetch")} /\ FromFetch(p)
                [] RouteOf(p).default.set ->
                      SourcesRun(p) = {Step("default")} /\ FromDefault(p)
                [] OTHER -> SourcesRun(p) = {} /\ Unmatched(p)
        /\ (RouteOf(p).mock.set \/ RouteOf(p).fetch) =>
              ~Ran(p, Step("default")) /\ ~FromDefault(p)

\* A route with a mock, a fetch and a default response, answered by its mock
\* after both cases were false.
C12_Witness ==
    \E p \in Callers :
        /\ Answered(p) /\ NoneTrue(p)
        /\ Len(RouteOf(p).cases) = 2
        /\ RouteOf(p).mock.set /\ RouteOf(p).fetch /\ RouteOf(p).default.set
        /\ FromMock(p)
\* C13: when the case that matches declares no body, the response has the
\* case's status and a null body, and not the body of the route's mock.
C13_NoBodyIsNull ==
    \A p \in Callers : Answered(p) =>
        \A i \in 1..Len(RouteOf(p).cases) :
            (FirstTrue(p, i) /\ RouteOf(p).cases[i].then.body = "") =>
                /\ resp[p].status = RouteOf(p).cases[i].then.status
                /\ resp[p].body = NullValue
                /\ RouteOf(p).mock.set => resp[p].body # DeclaredBody(RouteOf(p).mock)

\* The case without a body has answered on a route that has a mock.
C13_Witness ==
    \E p \in Callers :
        /\ Answered(p)
        /\ RouteOf(p).mock.set
        /\ \E i \in 1..Len(RouteOf(p).cases) :
              FirstTrue(p, i) /\ RouteOf(p).cases[i].then.body = ""
        /\ resp[p].status = StatusAccepted
\* ------------------------------------------------------------------ validation and errors
RanBefore(p, a, b) ==
    \A k \in 1..Len(ran[p]) : ran[p][k] = b => \E j \in 1..(k - 1) : ran[p][j] = a

\* C14: the body schema is checked before the stateful step: a request answered
\* 400 SCHEMA_VALIDATION_FAILED has changed no collection, and the stateful
\* step did not run for it.
C14_SchemaBeforeState ==
    \A p \in Callers :
        (pc[p] = "done" /\ resp[p].code = "SCHEMA_VALIDATION_FAILED") =>
            /\ resp[p].status = StatusBadRequest
            /\ StoreAsBefore
            /\ ~Ran(p, Step("stateful"))
\* The request carries a JSON body, on a method whose body is parsed, that the
\* route's schema does not accept.
ViolatesSchema(p) ==
    /\ RouteOf(p).schema.set
    /\ RouteOf(p).method \in {"POST", "PUT", "PATCH"}
    /\ req[p].body[1] = "json"
    /\ ValidateObject(RouteOf(p).schema, req[p].body[2]) # {"ok"}

\* C15: on a route with a body schema, a POST, PUT or PATCH request whose body
\* violates the schema is answered 400 SCHEMA_VALIDATION_FAILED, whichever
\* response source the route would otherwise use.
C15_SchemaAlwaysChecked ==
    \A p \in Callers :
        (Answered(p) /\ ViolatesSchema(p)) =>
            resp[p].status = StatusBadRequest /\ resp[p].code = "SCHEMA_VALIDATION_FAILED"
\* What the declared parameters of the route require of the request.
ParamVerdicts(p) == ValidateRequestParams(RouteOf(p), req[p])
CasesRun(p) == {i \in 1..Len(RouteOf(p).cases) : Ran(p, CaseStep(i))}

\* C16: a request that lacks a parameter its route declares as required, or
\* carries a value that fails the declared type or enum, is answered 400 with
\* the code of the failed check, before the stateful step, the case loop and
\* every response source.
C16_ParamsChecked ==
    \A p \in Callers :
        (Answered(p) /\ Pass \notin ParamVerdicts(p)) =>
            /\ \E v \in ParamVerdicts(p) :
                  resp[p].status = v.status /\ resp[p].code = v.code
            /\ ~Ran(p, Step("stateful"))
            /\ CasesRun(p) = {} /\ SourcesRun(p) = {}
\* The request carries a body that is no JSON, on a method whose body is parsed.
MalformedBody(p) ==
    RouteOf(p).method \in {"POST", "PUT", "PATCH"} /\ req[p].body = BadBody

\* C17: a body that is not valid JSON is answered 400 INVALID_BODY when the
\* context is assembled, before the stateful step and the case loop: no
\* collection is changed and no case is evaluated for such a request.
C17_InvalidBodyFirst ==
    \A p \in Callers :
        (Answered(p) /\ MalformedBody(p)) =>
            /\ resp[p].status = StatusBadRequest /\ resp[p].code = "INVALID_BODY"
            /\ StoreAsBefore
            /\ ~Ran(p, Step("stateful"))
            /\ CasesRun(p) = {}
\* The response the state error of a request is mapped to.
StateErrorStatus(e) ==
    CASE e = "NotFound" -> StatusNotFound
      [] e = "Conflict" -> StatusConflict
      [] OTHER -> StatusBadRequest
StateErrorCode(e) ==
    CASE e = "NotFound" -> "STATE_NOT_FOUND"
      [] e = "Conflict" -> "STATE_CONFLICT"
      [] OTHER -> "STATE_BAD_INPUT"
StateFailed(p) == pc[p] = "done" /\ Ran(p, Step("stateful")) /\ err[p] # "nil"

\* C18: when the stateful step fails the pipeline stops: the response is 404
\* STATE_NOT_FOUND for NotFound, 409 STATE_CONFLICT for Conflict and 400
\* STATE_BAD_INPUT for BadInput, and no case, mock, fetch or default response
\* is produced.
C18_StateErrorMapped ==
    \A p \in Callers :
        StateFailed(p) =>
            /\ resp[p].status = StateErrorStatus(err[p])
            /\ resp[p].code = StateErrorCode(err[p])
            /\ CasesRun(p) = {} /\ SourcesRun(p) = {}

\* C20: every error response of the pipeline carries the error envelope:
\* success is false, the envelope's status is the HTTP status of the response
\* and errorCode names the failure.
C20_OneEnvelope ==
    \A p \in Callers :
        (pc[p] = "done" /\ resp[p].code # "") =>
            /\ resp[p].body[1] = "envelope"
            /\ resp[p].body[2].success = FALSE
            /\ resp[p].body[2].status = resp[p].status
            /\ resp[p].body[2].errorCode = resp[p].code
\* A reference of a condition to a key its scope does not have, and whether the
\* evaluation gets to it: the alternatives of an OR before it were false and
\* the operands of its AND before it were true.
AtomAbsent(atom, x) == ResolveValue(atom.scope, atom.key, x) = Absent
AtomReached(groups, g, k, x) ==
    /\ \A h \in 1..(g - 1) : EvalAnd(groups[h], x) = "false"
    /\ \A j \in 1..(k - 1) : EvalSingleCondition(groups[g][j], x) = "true"
RefersToAbsent(groups, x) ==
    \E g \in 1..Len(groups) : \E k \in 1..Len(groups[g]) : AtomAbsent(groups[g][k], x)
ReachesAbsent(groups, x) ==
    \E g \in 1..Len(groups) : \E k \in 1..Len(groups[g]) :
        AtomReached(groups, g, k, x) /\ AtomAbsent(groups[g][k], x)
EvalError(p) == resp[p] = ResponseError(StatusInternalServerError, "CASE_EVAL_ERROR")

\* C19 as stated: when the loop reaches a case whose condition references a key
\* absent from its scope, the request is answered 500 CASE_EVAL_ERROR and no
\* later case, base handler or default response runs.
C19_AbsentKeyIsError ==
    \A p \in Callers : Answered(p) =>
        \A i \in CasesRun(p) :
            RefersToAbsent(RouteOf(p).cases[i].when, Seen(p)) =>
                /\ EvalError(p)
                /\ CasesRun(p) = 1..i /\ SourcesRun(p) = {}

\* C19, amended: when the evaluation of a case's condition gets to a reference
\* to a key absent from its scope (body, query, headers or path), the request
\* is answered 500 CASE_EVAL_ERROR and no later case, base handler or default
\* response runs; a reference the short-circuit evaluation skips is not looked up.
C19_ReachedAbsentKeyIsError ==
    \A p \in Callers : Answered(p) =>
        \A i \in CasesRun(p) :
            ReachesAbsent(RouteOf(p).cases[i].when, Seen(p)) =>
                /\ EvalError(p)
                /\ CasesRun(p) = 1..i /\ SourcesRun(p) = {}

\* The second case got to a key its scope does not have, after the first was
\* false, and the request was answered with the evaluation error.
C19_Witness ==
    \E p \in Callers :
        /\ Answered(p)
        /\ CasesRun(p) = {1, 2}
        /\ ReachesAbsent(RouteOf(p).cases[2].when, Seen(p))
        /\ EvalError(p)
\* ------------------------------------------------------------------ proxy
serverVars == <<collections, heap, mu, pc, cfg, ctx, col, err, lin, linRes, fresh, req, resp,
                made, before, ran>>

\* start := time.Now(); timeCtx, cancel := context.WithTimeout(c.Context(), timeout)
FetchStart ==
    /\ fx.pc = "idle"
    /\ \E t \in TimeoutChoices, d \in DelayChoices, u \in Upstreams :
          fx' = [NoCall EXCEPT !.pc = "delay", !.timeoutMs = t, !.delayMs = d, !.up = u,
                               !.deadline = FetchTimeout(t)]
    /\ UNCHANGED <<serverVars, fq, agg, ev, file, rt, apps, proc, watcher>>

\* if p.delayMs > 0 { select { case <-time.After(delay): case <-timeCtx.Done(): 504 } }
FetchDelay ==
    /\ fx.pc = "delay"
    /\ IF fx.delayMs > 0
       THEN \E first \in FirstOf(fx.delayMs, fx.deadline) :
               IF first = "a"
               THEN fx' = [fx EXCEPT !.pc = "send", !.now = fx.delayMs]
               ELSE fx' = [fx EXCEPT !.pc = "done", !.now = fx.deadline,
                                     !.resp = FetchTimeoutError]
       ELSE fx' = [fx EXCEPT !.pc = "send"]
    /\ UNCHANGED <<serverVars, fq, agg, ev, file, rt, apps, proc, watcher>>

\* http.NewRequestWithContext(timeCtx, ...); client.Do(req): nothing leaves when
\* the context is done already; a refused connection is an error at once; else
\* the header arrives, or the deadline comes first and the call is aborted.
FetchSend ==
    /\ fx.pc = "send"
    /\ IF fx.now >= fx.deadline
       THEN fx' = [fx EXCEPT !.pc = "done", !.resp = FetchTimeoutError]
       ELSE IF fx.up.refused
       THEN fx' = [fx EXCEPT !.pc = "done", !.sent = TRUE, !.resp = FetchUpstreamError]
       ELSE \E first \in FirstOf(fx.now + fx.up.headerMs, fx.deadline) :
               IF first = "a"
               THEN fx' = [fx EXCEPT !.pc = "read", !.sent = TRUE, !.header = TRUE,
                                     !.now = fx.now + fx.up.headerMs]
               ELSE fx' = [fx EXCEPT !.pc = "done", !.sent = TRUE, !.now = fx.deadline,
                                     !.resp = FetchTimeoutError]
    /\ UNCHANGED <<serverVars, fq, agg, ev, file, rt, apps, proc, watcher>>

\* 304 is answered before the body is read; io.ReadAll(resp.Body) reads under
\* the same context and fails when the deadline comes before the body's end.
FetchRead ==
    /\ fx.pc = "read"
    /\ IF fx.up.status = StatusNotModified
       THEN fx' = [fx EXCEPT !.pc = "done", !.resp = FetchRelay(fx.up.status)]
       ELSE \E first \in FirstOf(fx.now + fx.up.bodyMs, fx.deadline) :
               IF first = "a"
               THEN fx' = [fx EXCEPT !.pc = "done", !.body = TRUE,
                                     !.now = fx.now + fx.up.bodyMs,
                                     !.resp = FetchRelay(fx.up.status)]
               ELSE fx' = [fx EXCEPT !.pc = "done", !.now = fx.deadline,
                                     !.resp = FetchBodyReadError]
    /\ UNCHANGED <<serverVars, fq, agg, ev, file, rt, apps, proc, watcher>>

\* defer cancel(); the handler returns.
FetchReturn ==
    /\ fx.pc = "done"
    /\ fx' = NoCall
    /\ UNCHANGED <<serverVars, fq, agg, ev, file, rt, apps, proc, watcher>>

NextFetch == FetchStart \/ FetchDelay \/ FetchSend \/ FetchRead \/ FetchReturn
SpecFetch == Init /\ [][NextFetch]_vars

\* The upstream answered and the handler has all of its response.
UpstreamAnswered ==
    /\ fx.pc = "done" /\ fx.header
    /\ fx.body \/ fx.up.status = StatusNotModified

\* C29: the proxy handler relays the upstream status: whenever the upstream
\* has answered, the status sent to the client is the upstream's, a 4xx inside
\* the error envelope with code FETCH_UPSTREAM_CLIENT_ERROR, a 304 with an
\* empty body, every other status with the upstream's headers and body.
C29_StatusRelayed ==
    UpstreamAnswered =>
        /\ fx.resp.status = fx.up.status
        /\ CASE fx.up.status = StatusNotModified -> fx.resp.body = <<"emptyMap">>
             [] fx.up.status >= 400 /\ fx.up.status < 500 ->
                   fx.resp = ResponseError(fx.up.status, "FETCH_UPSTREAM_CLIENT_ERROR")
             [] OTHER -> fx.resp.headers = UpstreamHeaders /\ fx.resp.body = <<"upstream">>

\* C30: a proxy call runs under one deadline of timeout_ms, 10,000 ms when
\* unset, over the delay and the upstream round trip together: when the
\* deadline comes during the delay the answer is 504 FETCH_TIMEOUT_ERROR and
\* nothing was sent upstream; when it comes before the upstream's header and
\* body are there the answer is 504 FETCH_TIMEOUT_ERROR.
C30_OneDeadline ==
    fx.pc = "done" =>
        /\ fx.deadline = (IF fx.timeoutMs = 0 THEN 10000 ELSE fx.timeoutMs)
        /\ fx.now <= fx.deadline
        /\ fx.delayMs > fx.deadline => (fx.resp = FetchTimeoutError /\ ~fx.sent)
        /\ (fx.sent /\ ~fx.up.refused
               /\ fx.delayMs + fx.up.headerMs + fx.up.bodyMs > fx.deadline
               /\ fx.up.status # StatusNotModified)
              => fx.resp = FetchTimeoutError
\* ------------------------------------------------------------------ watcher
\* case event := <-watcher.Events: a write re-arms the timer, any other
\* operation is dropped. An event of the instant the timer is due finds the
\* timer's function started already.
WatchEvent ==
    /\ watcher.running
    /\ watcher.timer = NoTimer \/ watcher.now < watcher.timer
    /\ Len(watcher.log) < MaxLog
    /\ \E op \in EventOps :
          IF op = "write"
          THEN watcher' = [watcher EXCEPT !.timer = Rearm(watcher.timer, watcher.now),
                                          !.log = Append(watcher.log, <<"write", watcher.now>>)]
          ELSE watcher' = watcher
    /\ UNCHANGED <<serverVars, fq, agg, ev, file, rt, apps, proc, fx>>

\* The timer's duration has elapsed: func() { reloadServer(configFile, rt) }
WatchTimer ==
    /\ watcher.running
    /\ watcher.timer # NoTimer /\ watcher.now >= watcher.timer
    /\ watcher' = [watcher EXCEPT !.timer = NoTimer,
                                  !.log = Append(watcher.log, <<"reload", watcher.now>>)]
    /\ UNCHANGED <<serverVars, fq, agg, ev, file, rt, apps, proc, fx>>

\* Time passes, up to the instant the timer is due.
WatchTick ==
    /\ watcher.running
    /\ watcher.timer = NoTimer \/ watcher.now < watcher.timer
    /\ watcher.now + TickMs <= MaxTime
    /\ watcher' = [watcher EXCEPT !.now =
                      IF watcher.timer # NoTimer /\ watcher.timer < watcher.now + TickMs
                      THEN watcher.timer ELSE watcher.now + TickMs]
    /\ UNCHANGED <<serverVars, fq, agg, ev, file, rt, apps, proc, fx>>

\* case sig := <-sigChan: handleSignal(sig, rt); return. The process ends
\* and its timer with it.
WatchSignal ==
    /\ watcher.running
    /\ watcher' = [watcher EXCEPT !.running = FALSE, !.timer = NoTimer]
    /\ UNCHANGED <<serverVars, fq, agg, ev, file, rt, apps, proc, fx>>

NextWatch == WatchEvent \/ WatchTimer \/ WatchTick \/ WatchSignal
SpecWatch == Init /\ [][NextWatch]_vars

IsWrite(k) == watcher.log[k][1] = "write"
IsReload(k) == watcher.log[k][1] = "reload"
At(k) == watcher.log[k][2]

\* C23: write events are debounced by 500 ms. A reload starts only after a
\* write event, 500 ms or more after it, and one reload only; two write events
\* with no reload between them are less than 500 ms apart, so every burst of
\* events less than 500 ms apart gets exactly one reload, no earlier than
\* 500 ms after the burst's last event; while the watcher runs the reload of
\* the last burst is pending until then.
C23_Debounced ==
    /\ \A k \in 1..Len(watcher.log) :
          IsReload(k) => /\ k > 1
                         /\ IsWrite(k - 1)
                         /\ At(k) >= At(k - 1) + 500
    /\ \A k \in 1..(Len(watcher.log) - 1) :
          (IsWrite(k) /\ IsWrite(k + 1)) => At(k + 1) - At(k) < 500
    /\ (watcher.running /\ watcher.log # <<>> /\ IsWrite(Len(watcher.log)))
          => /\ watcher.timer = At(Len(watcher.log)) + 500
             /\ watcher.now <= watcher.timer

\* A burst of three events, its reload, and a second burst.
C23_Witness ==
    /\ Len(watcher.log) >= 5
    /\ IsWrite(1) /\ IsWrite(2) /\ IsWrite(3) /\ IsReload(4) /\ IsWrite(5)
    /\ At(2) > At(1) /\ At(3) > At(2)
\* ------------------------------------------------------------------ reload
Listening == {g \in 1..Len(apps) : apps[g].state = "listening"}

\* The config file is written.
WriteFile ==
    /\ proc.alive
    /\ \E f \in FileChoices \ {file} : file' = f
    /\ proc' = [proc EXCEPT !.dirty = TRUE]
    /\ UNCHANGED <<serverVars, fq, agg, ev, rt, apps, watcher, fx>>

\* The debounce timer's function: reloadServer; rt.Mu.Lock()
ReloadLock ==
    /\ proc.alive /\ proc.pc = "idle" /\ proc.dirty
    /\ Len(apps) < MaxGenerations
    /\ rt.Mu = "free"
    /\ rt' = [rt EXCEPT !.Mu = "reload"]
    /\ proc' = [proc EXCEPT !.pc = "load", !.dirty = FALSE, !.outcome = "none"]
    /\ UNCHANGED <<serverVars, fq, agg, ev, file, apps, watcher, fx>>

\* cfg, err := LoadConfig(configFile); if err != nil { log; return }
ReloadLoad ==
    /\ proc.pc = "load"
    /\ LET r == LoadConfig(file)
       IN IF r.err # "nil"
          THEN /\ proc' = [proc EXCEPT !.pc = "idle", !.outcome = "failed"]
               /\ rt' = [rt EXCEPT !.Mu = "free"]
          ELSE /\ proc' = [proc EXCEPT !.pc = "shutdown", !.cfg = r.cfg]
               /\ rt' = rt
    /\ UNCHANGED <<serverVars, fq, agg, ev, file, apps, watcher, fx>>

\* rt.App.Shutdown(): the listeners are closed first ... An app whose
\* listenApp goroutine has not reached Listen yet has no listener: Shutdown
\* returns at once and leaves it as it is.
ReloadShutdown ==
    /\ proc.pc = "shutdown"
    /\ IF apps[rt.App].state = "listening"
       THEN /\ apps' = [apps EXCEPT ![rt.App].state = "closing"]
            /\ proc' = [proc EXCEPT !.pc = "drain"]
       ELSE /\ apps' = apps
            /\ proc' = [proc EXCEPT !.pc = "start"]
    /\ UNCHANGED <<serverVars, fq, agg, ev, file, rt, watcher, fx>>

\* ... and Shutdown returns when no connection is busy any more.
ReloadDrain ==
    /\ proc.pc = "drain"
    /\ apps[rt.App].inflight = 0
    /\ \A p \in Callers : pc[p] = "idle"
    /\ apps' = [apps EXCEPT ![rt.App].state = "shutdown"]
    /\ proc' = [proc EXCEPT !.pc = "start"]
    /\ UNCHANGED <<serverVars, fq, agg, ev, file, rt, watcher, fx>>

\* StartLogAggregator: go func() { for { select {...} } }(), one more task on
\* the package's logChannel and requestLogs.
StartLogAggregator(a) == [a EXCEPT !.tasks = @ + 1, !.at = Append(@, IdleTask)]

\* newApp := StartServer(cfg, ...): it starts a log aggregator, then
\* registerUserRoutes builds and registers
\* route by route; StopWithError ends the process, and the store in its
\* memory, at the first route whose handler cannot be built.
ReloadStart ==
    /\ proc.pc = "start"
    /\ LET r == RegisterUserRoutes(proc.cfg)
       IN IF r.exit
          THEN /\ apps' = Append(apps, [cfg |-> proc.cfg, routes |-> r.routes,
                                        state |-> "abandoned", inflight |-> 0])
               /\ proc' = [proc EXCEPT !.pc = "exited", !.alive = FALSE, !.outcome = "failed"]
               /\ collections' = [c \in Collections |-> <<>>]
               /\ heap' = [x \in Refs |-> Free]
          ELSE /\ apps' = Append(apps, App(proc.cfg, "built"))
               /\ proc' = [proc EXCEPT !.pc = "listen"]
               /\ UNCHANGED <<collections, heap>>
    /\ agg' = StartLogAggregator(agg)
    /\ UNCHANGED <<mu, pc, cfg, ctx, col, err, lin, linRes, fresh, req, resp, made, before, ran,
                   file, rt, watcher, fx, fq, ev>>

\* go listenApp(newApp, addr)
ReloadListen ==
    /\ proc.pc = "listen"
    /\ apps' = [apps EXCEPT ![Len(apps)].state = "starting"]
    /\ proc' = [proc EXCEPT !.pc = "assign"]
    /\ UNCHANGED <<serverVars, fq, agg, ev, file, rt, watcher, fx>>

\* rt.App = newApp; rt.Cfg = cfg; the deferred rt.Mu.Unlock()
ReloadAssign ==
    /\ proc.pc = "assign"
    /\ rt' = [App |-> Len(apps), Cfg |-> proc.cfg, Mu |-> "free"]
    /\ proc' = [proc EXCEPT !.pc = "idle", !.outcome = "reloaded"]
    /\ UNCHANGED <<serverVars, fq, agg, ev, file, apps, watcher, fx>>

\* listenApp: app.Listen(addr) binds the port, or fails when another app
\* holds it and the error is logged.
AppListen ==
    /\ proc.alive
    /\ \E g \in 1..Len(apps) :
          /\ apps[g].state = "starting"
          /\ apps' = [apps EXCEPT ![g].state = IF Listening = {} THEN "listening"
                                                ELSE "failed"]
    /\ UNCHANGED <<serverVars, fq, agg, ev, file, rt, proc, watcher, fx>>

\* A request arrives at the app that listens and is routed.
Accept ==
    /\ proc.alive
    /\ \E g \in Listening : \E rq \in RequestChoices :
          /\ apps[g].inflight < MaxInflight
          /\ \E a \in Answers(apps[g].routes, rq[1], rq[2]) :
                proc' = [proc EXCEPT !.served = [gen |-> g, method |-> a.method, path |-> a.path,
                                                 name |-> a.name, delayMs |-> a.delayMs]]
          /\ apps' = [apps EXCEPT ![g].inflight = @ + 1]
    /\ UNCHANGED <<serverVars, fq, agg, ev, file, rt, watcher, fx>>

\* applyDelay(delayMs) and the answer: the request is served.
Complete ==
    /\ proc.alive
    /\ \E g \in 1..Len(apps) :
          /\ apps[g].inflight > 0
          /\ apps' = [apps EXCEPT ![g].inflight = @ - 1]
    /\ UNCHANGED <<serverVars, fq, agg, ev, file, rt, proc, watcher, fx>>

\* A request arrives and no app listens: the connection is refused.
Refuse ==
    /\ proc.alive
    /\ Listening = {}
    /\ proc' = [proc EXCEPT !.refused = TRUE]
    /\ UNCHANGED <<serverVars, fq, agg, ev, file, rt, apps, watcher, fx>>

ReloadStep ==
    \/ ReloadLock \/ ReloadLoad \/ ReloadShutdown \/ ReloadDrain
    \/ ReloadStart \/ ReloadListen \/ ReloadAssign
NextReload == WriteFile \/ ReloadStep \/ AppListen \/ Accept \/ Complete \/ Refuse
SpecReload == Init /\ [][NextReload]_vars
\* ------------------------------------------------------------------ reload: claims
\* C21: when loading the changed configuration fails (the file cannot be read
\* or parsed, validation refuses it, or a route cannot be built into a
\* handler) the reload is abandoned: the process keeps running and the router
\* that was running is not shut down and still serves its old routes.
C21_FailedReloadKeepsRouter ==
    /\ proc.alive
    /\ proc.outcome = "failed" =>
          /\ apps[rt.App].state = "listening"
          /\ apps[rt.App].cfg = rt.Cfg
          /\ apps[rt.App].routes = RegisterUserRoutes(rt.Cfg).routes

\* C24: the swap of routers is atomic: a request in flight stays with an app
\* that has not finished its shutdown, only the newest generation accepts, and
\* at every instant of the running process some generation accepts requests, so
\* no request is refused.
C24_AtomicSwap ==
    /\ \A g \in 1..Len(apps) : apps[g].inflight > 0 => apps[g].state \in {"listening", "closing"}
    /\ \A g \in Listening : g = Len(apps)
    /\ proc.alive => Listening # {}
    /\ ~proc.refused

\* C25: a route list that passes the validator is built entry by entry
\* without a failure, every entry getting its handler; and of a list with an
\* entry that fails no endpoint is registered.
C25_ValidatedListCompiles ==
    \A g \in 1..Len(apps) :
        /\ ValidateAndApplyDefaults(apps[g].cfg) = "nil"
              => /\ apps[g].state # "abandoned"
                 /\ \A i \in 1..Len(apps[g].cfg.routes) :
                       CreateRouteHandler(apps[g].cfg.routes[i], apps[g].cfg).err = "nil"
        /\ apps[g].state = "abandoned" => apps[g].routes = <<>>

\* The request last accepted names a route the generation's configuration declares.
ServedDeclared ==
    /\ proc.served.gen # 0
    /\ \E i \in 1..Len(apps[proc.served.gen].cfg.routes) :
          LET r == apps[proc.served.gen].cfg.routes[i]
          IN r.method = proc.served.method /\ r.path = proc.served.path

\* C26: every route of a validated configuration is served, whichever of GET,
\* POST, PUT, PATCH, DELETE and OPTIONS its method is: a request of the
\* route's method and path goes to a route declared with that method and path,
\* never to ROUTE_NOT_FOUND.
C26_EveryRouteServed ==
    ServedDeclared =>
        \E i \in 1..Len(apps[proc.served.gen].cfg.routes) :
            LET r == apps[proc.served.gen].cfg.routes[i]
            IN /\ r.method = proc.served.method /\ r.path = proc.served.path
               /\ r.name = proc.served.name

\* C27: in every router generation the registered endpoints have pairwise
\* different (method, path) pairs.
C27_UniqueEndpoints ==
    \A g \in 1..Len(apps) : \A i, j \in 1..Len(apps[g].routes) :
        (apps[g].routes[i].method = apps[g].routes[j].method
            /\ apps[g].routes[i].path = apps[g].routes[j].path) => i = j

\* C28: a configuration with a delay_ms above 10,000 is refused at validation:
\* no configuration a router was built from has one, and no request is delayed
\* by more than 10,000 ms.
C28_DelayLimited ==
    /\ \A g \in 1..Len(apps) :
          /\ ValidateDelay(apps[g].cfg.delayMs) = "nil"
          /\ \A i \in 1..Len(apps[g].cfg.routes) :
                /\ ValidateDelay(apps[g].cfg.routes[i].delayMs) = "nil"
                /\ ValidateDelay(apps[g].cfg.routes[i].mockDelayMs) = "nil"
    /\ proc.served.delayMs <= 10000
\* Reloads while a caller works on the store: the handlers of every
\* generation are built over the one globalStateStore.
MaxReloadRecords == 1
StoreRequest ==
    /\ proc.alive
    /\ \E p \in SeqCallers :
          \/ Listening # {} /\ Call(p, CreateConfigs, Bodies, MaxReloadRecords)
          \/ StoreStep(p)
NextReloadStore == WriteFile \/ ReloadStep \/ AppListen \/ StoreRequest
SpecReloadStore == Init /\ [][NextReloadStore]_vars

\* C22: a hot reload never changes the state store: no step of a reload,
\* successful or failed, changes a collection or a record, so every collection
\* holds after the reload the records it held before, in the same order.
C22_ReloadKeepsStore ==
    [][proc'.pc # proc.pc => (collections' = collections /\ heap' = heap)]_vars
\* ------------------------------------------------------------------ delays
\* The declared route that answered the request last accepted.
ServedRoute ==
    LET c == apps[proc.served.gen].cfg
    IN c.routes[CHOOSE i \in 1..Len(c.routes) : c.routes[i].name = proc.served.name]
ServedByRoute ==
    /\ proc.served.gen # 0
    /\ \E i \in 1..Len(apps[proc.served.gen].cfg.routes) :
          apps[proc.served.gen].cfg.routes[i].name = proc.served.name

\* C31: the delay of a mock response is the route's delay_ms when it is set,
\* else the mock's when it is set, else the server's default.
C31_RouteDelayFirst ==
    ServedByRoute =>
        proc.served.delayMs =
            IF ServedRoute.delayMs # 0 THEN ServedRoute.delayMs
            ELSE IF ServedRoute.mockDelayMs # 0 THEN ServedRoute.mockDelayMs
            ELSE apps[proc.served.gen].cfg.delayMs
\* ------------------------------------------------------------------ filtering
\* parseAndFilterMockData calls FilteredMockData(result, params).
FilterStart ==
    /\ fq.stage = "idle"
    /\ \E d \in DataChoices, ps \in ParamChoices :
          fq' = [stage |-> "exact", data |-> d, params |-> ps, cur |-> d,
                 todo |-> Present(ps, ExactKeys), err |-> "nil"]
    /\ UNCHANGED <<serverVars, file, rt, apps, proc, watcher, fx, agg, ev>>

\* applyExactFilters: for key, val := range params, in the order the map gives.
FilterExact ==
    /\ fq.stage = "exact"
    /\ IF fq.todo = {}
       THEN fq' = [fq EXCEPT !.stage = "like", !.todo = Present(fq.params, LikeKeys)]
       ELSE \E k \in fq.todo :
               fq' = [fq EXCEPT !.cur = ApplyExactFilter(fq.cur, k, fq.params[k][2]),
                                !.todo = fq.todo \ {k}]
    /\ UNCHANGED <<serverVars, file, rt, apps, proc, watcher, fx, agg, ev>>

\* applyLikeFilters: the same loop over the _like keys.
FilterLike ==
    /\ fq.stage = "like"
    /\ IF fq.todo = {}
       THEN fq' = [fq EXCEPT !.stage = "sort"]
       ELSE \E k \in fq.todo :
               fq' = [fq EXCEPT !.cur = ApplyLikeFilter(fq.cur, k, fq.params[k][2]),
                                !.todo = fq.todo \ {k}]
    /\ UNCHANGED <<serverVars, file, rt, apps, proc, watcher, fx, agg, ev>>

\* applySorting(filtered, params)
FilterSort ==
    /\ fq.stage = "sort"
    /\ fq' = [fq EXCEPT !.stage = "page", !.cur = ApplySorting(fq.cur, fq.params)]
    /\ UNCHANGED <<serverVars, file, rt, apps, proc, watcher, fx, agg, ev>>

\* filtered, err := applyPagination(filtered, params)
FilterPaginate ==
    /\ fq.stage = "page"
    /\ LET r == ApplyPagination(fq.cur, fq.params)
       IN fq' = [fq EXCEPT !.stage = "done", !.cur = r.data, !.err = r.err]
    /\ UNCHANGED <<serverVars, file, rt, apps, proc, watcher, fx, agg, ev>>

\* return filtered, nil
FilterReturn ==
    /\ fq.stage = "done"
    /\ fq' = NoFilter
    /\ UNCHANGED <<serverVars, file, rt, apps, proc, watcher, fx, agg, ev>>

NextFilter ==
    FilterStart \/ FilterExact \/ FilterLike \/ FilterSort \/ FilterPaginate \/ FilterReturn
SpecFilter == Init /\ [][NextFilter]_vars

\* What the four stages mean, each over the whole parameter set at once.
ExactAll(data, params) ==
    LET Keep(item) == \A k \in Present(params, ExactKeys) :
                         /\ item[k] # Absent
                         /\ SprintChars(item[k]) = params[k][2]
    IN SelectSeq(data, Keep)
LikeAll(data, params) ==
    LET Keep(item) == \A k \in Present(params, LikeKeys) :
                         /\ item[LikeField(k)] # Absent
                         /\ ContainsSub(ToLower(SprintChars(item[LikeField(k)])),
                                        ToLower(params[k][2]))
    IN SelectSeq(data, Keep)
\* x goes before y: x has the field and y has not, or x's value is the smaller
\* (the greater, for desc).
GoesBefore(x, y, field, desc) ==
    /\ ItemGet(x, field) # Absent
    /\ \/ ItemGet(y, field) = Absent
       \/ /\ IsNum(ItemGet(x, field))
          /\ IF desc THEN ItemGet(x, field)[2] > ItemGet(y, field)[2]
             ELSE ItemGet(x, field)[2] < ItemGet(y, field)[2]
       \/ /\ IsChars(ItemGet(x, field))
          /\ IF desc THEN StrLess(ItemGet(y, field)[2], ItemGet(x, field)[2])
             ELSE StrLess(ItemGet(x, field)[2], ItemGet(y, field)[2])
\* The stable sort: an item's place is the number of items that go before it,
\* by value or, among equals, by their place in the input.
StableSorted(data, params) ==
    IF params["_sort"] = Absent \/ params["_sort"][2] = <<>> THEN data
    ELSE LET field == FieldNamed(params["_sort"][2])
             desc == params["_order"] # Absent
                        /\ ToLower(params["_order"][2]) = <<"d", "e", "s", "c">>
             Place(k) == 1 + Cardinality({j \in 1..Len(data) :
                                \/ GoesBefore(data[j], data[k], field, desc)
                                \/ /\ ~GoesBefore(data[k], data[j], field, desc)
                                   /\ j < k})
         IN [p \in 1..Len(data) |-> data[CHOOSE k \in 1..Len(data) : Place(k) = p]]
Paged(data, params) ==
    LET limit == IF params["_limit"] = Absent THEN 0 ELSE Sscanf(params["_limit"][2]).n
        page == IF params["_page"] = Absent THEN 1 ELSE Sscanf(params["_page"][2]).n
    IN IF limit = 0 THEN data
       ELSE LET idx == {i \in 1..Len(data) : (page - 1) * limit < i /\ i <= page * limit}
            IN [p \in 1..Cardinality(idx) |-> data[(page - 1) * limit + p]]
PageParamsOk(params) ==
    /\ params["_limit"] = Absent \/ ~Sscanf(params["_limit"][2]).err
    /\ params["_page"] = Absent \/ ~Sscanf(params["_page"][2]).err

SnapNames == {"createUser", "getUser", "updateUser"}
SnapBodies(n) ==
    CASE n = "createUser" -> {[k \in Keys |-> IF k = "id" THEN Num(1) ELSE Str("a")]}
      [] n = "updateUser" -> {[k \in Keys |-> IF k = "id" THEN Absent ELSE Str("b")]}
      [] OTHER -> {}
SnapRequests(n) ==
    {rq \in [route : {n}, headers : {c.headers : c \in Presented},
             query : {c.query : c \in Presented},
             body : IF SnapBodies(n) = {} THEN {NoBody} ELSE {JsonBody(b) : b \in SnapBodies(n)},
             id : IF RouteConfigOf(n).hasId THEN {"1"} ELSE {""}] :
        /\ \E c \in Presented : c.headers = rq.headers /\ c.query = rq.query
        /\ AuthMiddleware(GlobalAuth, RouteConfigOf(n).auth, rq).pass}

ReceiveSnap(p) ==
    /\ pc[p] = "idle"
    /\ \E n \in SnapNames : \E rq \in SnapRequests(n) :
        /\ PipeRoom(n, MaxPipeRecords)
        /\ req' = [req EXCEPT ![p] = rq]
    /\ before' = [collections |-> collections, heap |-> heap]
    /\ pc' = [pc EXCEPT ![p] = "auth"]
    /\ UNCHANGED <<storeVars, cfg, ctx, col, err, histVars, resp, made, ran, envVars>>

NextSnap ==
    \E p \in Callers :
        \/ ReceiveSnap(p)
        \/ AuthGate(p)
        \/ BuildContext(p)
        \/ StoreLock(p)
        \/ PipeApply(p)
        \/ StoreUnlock(p)
        \/ StateResult(p)
        \/ Respond(p)
        \/ Finish(p)
SpecSnap == Init /\ [][NextSnap]_vars

\* What the request's ctx.State shows: the records its shortcuts refer to, as
\* they are now.
RecordAt(r) == IF r = NilRef THEN NullValue ELSE heap[r]
StateView(p) ==
    [list |-> [i \in 1..Len(ctx[p].state.list) |-> heap[ctx[p].state.list[i]]],
     item |-> RecordAt(ctx[p].state.item),
     created |-> RecordAt(ctx[p].state.created),
     updated |-> RecordAt(ctx[p].state.updated)]
\* The store operation of the request has returned and its response is not written yet.
Templating(p) == pc[p] \in {"ret", "cases"} /\ err[p] = "nil"

\* C33: the body of a stateful response is a snapshot taken while the request's
\* store operation held the lock: from the operation's return until the
\* response is written no step, of this or of a concurrent request, changes
\* the records that state.item, state.created, state.updated and state.list
\* show.
C33_ResponseIsSnapshot ==
    [][\A p \in Callers : (Templating(p) /\ Templating(p)') => StateView(p)' = StateView(p)]_vars

\* ------------------------------------------------------------------ errors after the stateful step
\* The error responses the handler writes after ApplyStateful has returned.
LateErrorCodes == {"CASE_EVAL_ERROR", "TEMPLATE_ERROR", "INVALID_BODY",
                   "SCHEMA_VALIDATION_FAILED", "MOCK_PARSE_ERROR"}

\* C34: a request that ends in an error response written after the stateful
\* step (CASE_EVAL_ERROR, a template error, INVALID_BODY,
\* SCHEMA_VALIDATION_FAILED, MOCK_PARSE_ERROR) leaves every collection as it
\* was before the request.
C34_LateErrorKeepsStore ==
    \A p \in Callers :
        (pc[p] = "done" /\ resp[p].code \in LateErrorCodes) => StoreAsBefore

\* ------------------------------------------------------------------ one delay
\* The server with every route, stateful or not.
NextAll ==
    \E p \in SeqCallers :
        \/ ReceiveOn(p, RouteNames \cup LogicNames, MaxPipeRecords)
        \/ AuthGate(p)
        \/ BuildContext(p)
        \/ StoreLock(p)
        \/ PipeApply(p)
        \/ StoreUnlock(p)
        \/ StateResult(p)
        \/ Respond(p)
        \/ Finish(p)
SpecAll == Init /\ [][NextAll]_vars

Delays(p) == {k \in 1..Len(ran[p]) : ran[p][k] = DelayStep}
SourceOf(p, k) ==
    /\ k > 1 /\ k - 1 <= Len(ran[p])
    /\ \/ ran[p][k - 1] \in {Step("mock"), Step("fetch"), Step("default")}
       \/ /\ ran[p][k - 1][1] = "case"
          /\ EvaluateCondition(RouteOf(p).cases[ran[p][k - 1][2]].when,
                               EContext(ctx[p], req[p])) = "true"

\* C35: the pipeline applies at most one artificial delay per request, that of
\* the chosen response source: on every path (matched case, mock, fetch,
\* default, or an error exit) the delay is invoked at most once, right after
\* the source was chosen, and never on an exit that chose none.
C35_OneDelay ==
    \A p \in Callers :
        /\ Cardinality(Delays(p)) <= 1
        /\ \A k \in Delays(p) : SourceOf(p, k)
        /\ (pc[p] = "done" /\ Delays(p) = {}) =>
              \A k \in 1..Len(ran[p]) : ~SourceOf(p, k + 1)
C35_Witness ==
    \E p \in Callers :
        /\ pc[p] = "done"
        /\ Ran(p, CaseStep(1))
        /\ Ran(p, CaseStep(2))
        /\ RouteOf(p).mock.set
        /\ ~Ran(p, Step("mock"))
        /\ Cardinality(Delays(p)) = 1

\* ------------------------------------------------------------------ short circuit
\* The atom that decides a group: the first that is not true; the group that
\* decides a condition: the first that is not false. 0 when there is none.
FirstNot(n, value(_), v) ==
    IF \E k \in 1..n : value(k) # v
    THEN CHOOSE k \in 1..n : value(k) # v /\ \A j \in 1..(k - 1) : value(j) = v
    ELSE 0
GroupDecider(atoms, x) ==
    LET value(k) == EvalSingleCondition(atoms[k], x) IN FirstNot(Len(atoms), value, "true")
GroupValue(atoms, x) ==
    IF GroupDecider(atoms, x) = 0 THEN "true"
    ELSE EvalSingleCondition(atoms[GroupDecider(atoms, x)], x)
Decider(groups, x) ==
    LET value(g) == GroupValue(groups[g], x) IN FirstNot(Len(groups), value, "false")
NoAtomFails(groups, x) ==
    \A g \in 1..Len(groups) : \A k \in 1..Len(groups[g]) :
        EvalSingleCondition(groups[g][k], x) # "error"
BooleanValue(groups, x) ==
    IF \E g \in 1..Len(groups) : \A k \in 1..Len(groups[g]) :
          EvalSingleCondition(groups[g][k], x) = "true"
    THEN "true" ELSE "false"
ShortCircuits(groups, x) ==
    /\ EvaluateCondition(groups, x) =
          IF Decider(groups, x) = 0 THEN "false"
          ELSE GroupValue(groups[Decider(groups, x)], x)
    /\ NoAtomFails(groups, x) => EvaluateCondition(groups, x) = BooleanValue(groups, x)
\* An atom behind the deciding one would fail.
FailureSkipped(groups, x) ==
    /\ Decider(groups, x) # 0
    /\ LET d == Decider(groups, x)
           a == GroupDecider(groups[d], x)
       IN \/ \E g \in (d + 1)..Len(groups) : \E k \in 1..Len(groups[g]) :
                EvalSingleCondition(groups[g][k], x) = "error"
          \/ a # 0 /\ \E k \in (a + 1)..Len(groups[d]) :
                EvalSingleCondition(groups[d][k], x) = "error"
EvaluatedCases(p) == {i \in 1..Len(RouteOf(p).cases) : Ran(p, CaseStep(i))}
WhenOf(p, i) == RouteOf(p).cases[i].when

Role == <<"R", "o", "l", "e">>
XRole == <<"X", "-", "R", "o", "l", "e">>
SentValues == {"a", "b"}
MaxSent == 2
SentOver(names) ==
    UNION {[1..n -> {<<nm, v>> : nm \in names, v \in SentValues}] : n \in 0..MaxSent}
BaseSent == [headers |-> << <<XRole, "b">> >>, query |-> << <<ToLower(Role), "b">> >>,
             body |-> << <<ToLower(Role), "b">> >>]
SentChoices ==
    {[BaseSent EXCEPT !.headers = h] : h \in SentOver({XRole, ToLower(XRole)})}
    \cup {[BaseSent EXCEPT !.query = q] : q \in SentOver({Role, ToLower(Role)})}
    \cup {[BaseSent EXCEPT !.body = b] : b \in SentOver({Role, ToLower(Role)})}

\* The same lines with other letter case in the names.
Respelled(sent) ==
    {t \in [1..Len(sent) -> {<<nm, v>> : nm \in {Role, ToLower(Role), XRole, ToLower(XRole)},
                                          v \in SentValues}] :
        \A i \in 1..Len(sent) : EqualFold(t[i][1], sent[i][1]) /\ t[i][2] = sent[i][2]}
Twins(raw) ==
    {[headers |-> h, query |-> q, body |-> raw.body] :
        h \in Respelled(raw.headers), q \in Respelled(raw.query)}

\* fasthttp's header names: the first letter and each letter after a dash in
\* upper case, the others in lower case.
UpperChar(ch) ==
    IF \E i \in 1..Len(LowerChars) : LowerChars[i] = ch
    THEN UpperChars[CHOOSE i \in 1..Len(LowerChars) : LowerChars[i] = ch]
    ELSE ch
Canonical(s) ==
    [i \in 1..Len(s) |-> IF i = 1 \/ s[i - 1] = "-" THEN UpperChar(s[i]) ELSE LowerChar(s[i])]

\* c.Queries() and json.Unmarshal into a map: one entry per name as spelled,
\* the last value sent under it.
LastOf(sent, nm) ==
    sent[CHOOSE i \in 1..Len(sent) : sent[i][1] = nm /\ \A j \in (i + 1)..Len(sent) : sent[j][1] # nm][2]
Queries(sent) == [nm \in {sent[i][1] : i \in 1..Len(sent)} |-> LastOf(sent, nm)]
\* c.GetReqHeaders() and v[0]: per canonical name the first value sent.
FirstOfName(sent, nm) ==
    sent[CHOOSE i \in 1..Len(sent) :
            Canonical(sent[i][1]) = nm /\ \A j \in 1..(i - 1) : Canonical(sent[j][1]) # nm][2]
GetReqHeaders(sent) ==
    [nm \in {Canonical(sent[i][1]) : i \in 1..Len(sent)} |-> FirstOfName(sent, nm)]

\* for k, v := range m { out[strings.ToLower(k)] = v }: the map is ranged in
\* any order, so of the entries whose names fold to one key any may be the
\* last written.
LowerKeys(mp) ==
    {q \in [{ToLower(k) : k \in DOMAIN mp} -> SentValues] :
        \A n \in DOMAIN q : \E k \in DOMAIN mp : ToLower(k) = n /\ q[n] = mp[k]}
Contexts(sent) ==
    {[headers |-> h, query |-> q, body |-> Queries(sent.body)] :
        h \in LowerKeys(GetReqHeaders(sent.headers)), q \in LowerKeys(Queries(sent.query))}

\* evalResolveValue: for k, v := range m { if strings.EqualFold(k, key) {...; break} }
\* takes the first entry the range reaches among those that match.
EvalResolveValue(scope, key, x) == {x[scope][k] : k \in {k \in DOMAIN x[scope] : EqualFold(k, key)}}
\* evalSingleCondition for request.<scope>.<key> == '<lit>'
EvalSingle(atom, x) ==
    IF EvalResolveValue(atom.scope, atom.key, x) = {} THEN {"error"}
    ELSE {IF v = atom.lit THEN "true" ELSE "false" : v \in EvalResolveValue(atom.scope, atom.key, x)}
\* The case loop over conditions of one comparison each: the cases it can choose.
RECURSIVE CaseLoopOutcomes(_, _, _)
CaseLoopOutcomes(cases, i, x) ==
    IF i > Len(cases) THEN {0}
    ELSE UNION {CASE r = "error" -> {-1}
                  [] r = "true" -> {i}
                  [] OTHER -> CaseLoopOutcomes(cases, i + 1, x)
                : r \in EvalSingle(cases[i], x)}
Outcomes(cases, sent) == UNION {CaseLoopOutcomes(cases, 1, x) : x \in Contexts(sent)}

FoldAtoms ==
    {[scope |-> "headers", key |-> XRole, lit |-> "a"],
     [scope |-> "query", key |-> Role, lit |-> "a"],
     [scope |-> "body", key |-> Role, lit |-> "a"],
     [scope |-> "body", key |-> ToLower(Role), lit |-> "b"]}
FoldCases == {<<a, b>> : a \in FoldAtoms, b \in FoldAtoms}

\* A request arrives, and with it the same request under another spelling.
FoldReceive ==
    /\ ev.pc = "idle"
    /\ \E raw \in SentChoices : \E twin \in Twins(raw) : \E cases \in FoldCases :
          ev' = [NoEval EXCEPT !.pc = "first", !.raw = raw, !.twin = twin, !.cases = cases]
    /\ UNCHANGED <<serverVars, file, rt, apps, proc, watcher, fx, fq, agg>>
\* The handler builds the context and runs the case loop.
FoldFirst ==
    /\ ev.pc = "first"
    /\ \E o \in Outcomes(ev.cases, ev.raw) : ev' = [ev EXCEPT !.pc = "again", !.first = o]
    /\ UNCHANGED <<serverVars, file, rt, apps, proc, watcher, fx, fq, agg>>
\* The same request once more.
FoldAgain ==
    /\ ev.pc = "again"
    /\ \E o \in Outcomes(ev.cases, ev.raw) : ev' = [ev EXCEPT !.pc = "other", !.again = o]
    /\ UNCHANGED <<serverVars, file, rt, apps, proc, watcher, fx, fq, agg>>
\* The request under the other spelling.
FoldOther ==
    /\ ev.pc = "other"
    /\ \E o \in Outcomes(ev.cases, ev.twin) : ev' = [ev EXCEPT !.pc = "done", !.other = o]
    /\ UNCHANGED <<serverVars, file, rt, apps, proc, watcher, fx, fq, agg>>
FoldFinish ==
    /\ ev.pc = "done"
    /\ ev' = NoEval
    /\ UNCHANGED <<serverVars, file, rt, apps, proc, watcher, fx, fq, agg>>
NextFold == FoldReceive \/ FoldFirst \/ FoldAgain \/ FoldOther \/ FoldFinish
SpecFold == Init /\ [][NextFold]_vars

\* C37: case matching is deterministic: for a fixed route and a fixed request,
\* also one whose body or query has keys equal up to letter case, two runs of
\* the case loop select the same case or the same error.
C37_Deterministic == ev.pc \in {"other", "done"} => ev.again = ev.first

\* C38: two requests that differ only in the letter case of their header names
\* or query parameter names get the same result from the case evaluator, for
\* any condition.
C38_CaseBlind == ev.pc = "done" => ev.other = ev.first

\* ------------------------------------------------------------------ reload and shutdown
\* handleSignal: rt.Mu.Lock()
SignalLock ==
    /\ proc.alive /\ proc.sig = "none"
    /\ rt.Mu = "free"
    /\ rt' = [rt EXCEPT !.Mu = "signal"]
    /\ proc' = [proc EXCEPT !.sig = "shutdown"]
    /\ UNCHANGED <<serverVars, fq, agg, ev, file, apps, watcher, fx>>
\* if rt.App != nil { rt.App.Shutdown() }
SignalShutdown ==
    /\ proc.alive /\ proc.sig = "shutdown"
    /\ IF apps[rt.App].state = "listening"
       THEN /\ apps' = [apps EXCEPT ![rt.App].state = "closing"]
            /\ proc' = [proc EXCEPT !.sig = "drain"]
       ELSE /\ apps' = apps
            /\ proc' = [proc EXCEPT !.sig = "unlock"]
    /\ UNCHANGED <<serverVars, fq, agg, ev, file, rt, watcher, fx>>
SignalDrain ==
    /\ proc.alive /\ proc.sig = "drain"
    /\ apps[rt.App].inflight = 0
    /\ apps' = [apps EXCEPT ![rt.App].state = "shutdown"]
    /\ proc' = [proc EXCEPT !.sig = "unlock"]
    /\ UNCHANGED <<serverVars, fq, agg, ev, file, rt, watcher, fx>>
\* the deferred rt.Mu.Unlock()
SignalUnlock ==
    /\ proc.alive /\ proc.sig = "unlock"
    /\ rt' = [rt EXCEPT !.Mu = "free"]
    /\ proc' = [proc EXCEPT !.sig = "return"]
    /\ UNCHANGED <<serverVars, fq, agg, ev, file, apps, watcher, fx>>
\* watchConfigFile returns, and main with it: the process ends.
SignalReturn ==
    /\ proc.alive /\ proc.sig = "return"
    /\ proc' = [proc EXCEPT !.alive = FALSE, !.pc = "exited"]
    /\ UNCHANGED <<serverVars, fq, agg, ev, file, rt, apps, watcher, fx>>
SignalStep == SignalLock \/ SignalShutdown \/ SignalDrain \/ SignalUnlock \/ SignalReturn
NextSwap == WriteFile \/ ReloadStep \/ AppListen \/ SignalStep
SpecSwap == Init /\ [][NextSwap]_vars

\* C39: reload and shutdown exclude each other, and when neither runs the
\* runtime's app and config are those of the most recent successful reload:
\* the newest app that was built, with its config, and no earlier router
\* listens any more.
C39_ReloadExclusive ==
    /\ ~(proc.pc \notin {"idle", "exited"} /\ proc.sig \in {"shutdown", "drain", "unlock"})
    /\ (proc.alive /\ rt.Mu = "free") =>
          /\ rt.App = Len(apps)
          /\ rt.Cfg = apps[rt.App].cfg
          /\ apps[rt.App].state # "failed"
          /\ \A g \in 1..Len(apps) : g # rt.App => apps[g].state # "listening"

\* ------------------------------------------------------------------ request log
\* logChannel = make(chan RequestLog, 2000); maxLogRecords = 100
LogChannelCap == 2000
maxLogRecords == 100
MaxEntries == 2

\* RequestLoggerMiddleware: select { case logChannel <- entry: default: }
LogSend ==
    /\ proc.alive /\ Listening # {}
    /\ agg.sent < MaxEntries
    /\ agg' = IF Len(agg.chan) < LogChannelCap
              THEN [agg EXCEPT !.sent = @ + 1, !.chan = Append(@, agg.sent + 1)]
              ELSE [agg EXCEPT !.sent = @ + 1]
    /\ UNCHANGED <<serverVars, fq, ev, file, rt, apps, proc, watcher, fx>>
\* case entry := <-logChannel
AggReceive(t) ==
    /\ proc.alive
    /\ agg.at[t].pc = "select"
    /\ agg.chan # <<>>
    /\ agg' = [agg EXCEPT !.chan = Tail(@), !.at[t] = [pc |-> "trim", entry |-> Head(agg.chan)]]
    /\ UNCHANGED <<serverVars, fq, ev, file, rt, apps, proc, watcher, fx>>
\* if len(requestLogs) >= maxLogRecords { requestLogs = requestLogs[1:] }
AggTrim(t) ==
    /\ proc.alive
    /\ agg.at[t].pc = "trim"
    /\ agg' = [agg EXCEPT !.logs = IF Len(@) >= maxLogRecords THEN Tail(@) ELSE @,
                          !.at[t].pc = "append"]
    /\ UNCHANGED <<serverVars, fq, ev, file, rt, apps, proc, watcher, fx>>
\* requestLogs = append(requestLogs, entry)
AggAppend(t) ==
    /\ proc.alive
    /\ agg.at[t].pc = "append"
    /\ agg' = [agg EXCEPT !.logs = Append(@, agg.at[t].entry), !.at[t] = IdleTask]
    /\ UNCHANGED <<serverVars, fq, ev, file, rt, apps, proc, watcher, fx>>
AggStep == \E t \in 1..agg.tasks : AggReceive(t) \/ AggTrim(t) \/ AggAppend(t)
NextLog == WriteFile \/ ReloadStep \/ AppListen \/ LogSend \/ AggStep
SpecLog == Init /\ [][NextLog]_vars

\* C40: at every moment, also after hot reloads, one aggregator task drains
\* the log channel and it alone touches the retained log, which holds at most
\* 100 entries in the order sent; the middleware's send never waits.
C40_SingleAggregator ==
    /\ agg.tasks = 1
    /\ Cardinality({t \in 1..agg.tasks : agg.at[t].pc # "select"}) <= 1
    /\ Len(agg.logs) <= maxLogRecords
    /\ \A i, j \in 1..Len(agg.logs) : i < j => agg.logs[i] < agg.logs[j]

====
